---- MODULE Spec2Model ----
(***************************************************************************)
(* Two-deck DJ console: the AudioEngine (both variants of the repository,  *)
(* js/audioEngine.js and js/knob.js) and the AutoMixer that drives it.     *)
(*                                                                         *)
(* Numbers of the program are JavaScript doubles; the model computes them  *)
(* as exact rationals <<numerator, denominator>> in lowest terms, so that   *)
(* every product and quotient of the code is computed, not assumed.        *)
(* Timer delays (setInterval / setTimeout) are abstracted to "pending: the *)
(* callback runs at some later turn of the event loop"; the wall clock and *)
(* the audio clock are explicit and advance together.                      *)
(*                                                                         *)
(* The BPMDetector that loadTrack runs on a decoded file is modelled on    *)
(* its own: detection holds the buffer handed to detect and the promise it *)
(* returns, and the engine reads the detector's result as TrackBpm.        *)
(***************************************************************************)
EXTENDS Integers, Sequences, FiniteSets, TLC

VARIABLES variant, currentTime, dateNow, decks, crossfaderPosition, autoMixer,
          timers, nextTimerId, loading, userOps, transports, loads, mixes,
          preMixVolumes, graceOwed, resetOwed, detection, mixLog

vars == <<variant, currentTime, dateNow, decks, crossfaderPosition, autoMixer,
          timers, nextTimerId, loading, userOps, transports, loads, mixes,
          preMixVolumes, graceOwed, resetOwed, detection, mixLog>>

-----------------------------------------------------------------------------
(* Exact rational arithmetic *)

RECURSIVE GCD(_, _)
GCD(a, b) == IF b = 0 THEN a ELSE GCD(b, a % b)

Abs(x) == IF x < 0 THEN -x ELSE x

Rat(n, d) ==
    LET s == IF d < 0 THEN -1 ELSE 1
        g == GCD(Abs(n), Abs(d))
    IN  <<(s * n) \div g, (s * d) \div g>>

R(n) == <<n, 1>>

(* denominators and cross factors are reduced before multiplying, which     *)
(* keeps the intermediate integers small                                    *)
RAdd(a, b) ==
    LET g == GCD(a[2], b[2])
    IN  Rat(a[1] * (b[2] \div g) + b[1] * (a[2] \div g), (a[2] \div g) * b[2])
RSub(a, b) == RAdd(a, <<-b[1], b[2]>>)
RMul(a, b) ==
    LET x == Rat(a[1], b[2])
        y == Rat(b[1], a[2])
    IN  <<x[1] * y[1], x[2] * y[2]>>
RDiv(a, b) == RMul(a, Rat(b[2], b[1]))
RLe(a, b) ==
    LET g == GCD(a[2], b[2])
    IN  a[1] * (b[2] \div g) <= b[1] * (a[2] \div g)
RLt(a, b) == ~RLe(b, a)
RMin(a, b) == IF RLe(a, b) THEN a ELSE b
RMax(a, b) == IF RLe(a, b) THEN b ELSE a
RAbs(a) == <<Abs(a[1]), a[2]>>

-----------------------------------------------------------------------------
(* Bounds of the model and the inputs drawn by the actions *)

MaxUserOps == 1
MaxTransports == 3
MaxLoads == 2
MaxMixes == 2
MaxTime == 10

DeckIds == {"A", "B"}
DeckOrder == <<"A", "B">>
Variants == {"audioEngine", "knob"}

null == <<>>
noDeck == "null"
noBuffer == "null"

(* The decoded files: a track stands for its AudioBuffer, with the duration *)
(* the decoder reports and the BPM the detector returns for it.  The three  *)
(* BPMs are values the detector can return: 12000/100, 12000/125 and twice  *)
(* 12000/199 rounded to a tenth.                                            *)
Tracks == {"t30", "t15", "t10"}

(* Files that do not load: one that decodeAudioData rejects, and one that   *)
(* decodes to a buffer shorter than one analysis frame (240 samples at      *)
(* 48 kHz, 1/200 s), on which BPMDetector.detect rejects.                   *)
CorruptFile == "corrupt"
ShortTrack == "tShort"
ShortBuffer ==
    [sampleRate |-> 48000, length |-> 240, period |-> 0, level |-> R(1),
     accent |-> R(2)]
Files == Tracks \cup {ShortTrack, CorruptFile}

TrackDuration(t) ==
    IF t = "t30" THEN R(30) ELSE IF t = "t15" THEN R(15)
    ELSE IF t = ShortTrack THEN Rat(ShortBuffer.length, ShortBuffer.sampleRate)
    ELSE R(10)
TrackBpm(t) == IF t = "t30" THEN R(120) ELSE IF t = "t15" THEN R(96) ELSE Rat(603, 5)

TimeSteps == {R(5)}
SeekInputs == {Rat(199, 20), Rat(41, 2), R(21)}
TempoInputs == {Rat(1, 4)}
RangeInputs == {R(-20), R(20)}
EqBands == {"low", "mid", "high"}
VolumeInputs == {Rat(1, 2)}
HotCueInputs == {1, 5}

-----------------------------------------------------------------------------
(* Program constants *)

fadeTime == 10
steps == 30
HotCueSlots == 4

TempoMin == Rat(1, 2)
TempoMax == Rat(3, 2)
ResetThreshold == Rat(1, 100)
EndTolerance == Rat(1, 10)

-----------------------------------------------------------------------------
(* Utils *)

clamp(value, min, max) == RMin(RMax(value, min), max)

(* Utils.crossfadeGains.  Math.cos is computed in fixed point, four decimal *)
(* places (Scale), by its Taylor polynomial of degree 10 in Horner form,    *)
(* whose truncation error on [0, pi/2] is below 10^-6; HalfPi is            *)
(* Math.PI / 2 in the same fixed point.  Gains are fixed-point numbers:     *)
(* Scale stands for 1.                                                      *)
Scale == 10000
HalfPi == 15708

FxMul(a, b) == (a * b) \div Scale

ToFx(x) == (x[1] * Scale) \div x[2]

cos(x) ==
    LET y == FxMul(x, x)
        t5 == Scale - (y \div 90)
        t4 == Scale - (FxMul(y, t5) \div 56)
        t3 == Scale - (FxMul(y, t4) \div 30)
        t2 == Scale - (FxMul(y, t3) \div 12)
    IN  Scale - (FxMul(y, t2) \div 2)

(* the linear crossfade: gains 1 - position and position *)
crossfadeGains_linear(position) ==
    [gainA |-> ToFx(RSub(R(1), position)), gainB |-> ToFx(position)]

crossfadeGains(position) ==
    LET angleA == FxMul(ToFx(RSub(R(1), position)), HalfPi)
        angleB == FxMul(ToFx(position), HalfPi)
    IN  [gainA |-> cos(angleB), gainB |-> cos(angleA)]

OtherDeck(d) == IF d = "A" THEN "B" ELSE "A"

-----------------------------------------------------------------------------
(* BPMDetector *)

minBPM == 60
maxBPM == 180
targetMinBPM == 90
targetMaxBPM == 140
analysisRate == 200

(* An AudioBuffer handed to detect: its sampleRate, its length in samples   *)
(* and its content.  The content is a click track, described by what the    *)
(* band-pass filter and the frame energy make of it: a click every period   *)
(* analysis frames (none when period is 0), each raising the RMS of two     *)
(* overlapping frames, clicks alternating between the levels level and      *)
(* accent.                                                                  *)
SampleRates == {44100, 48000}
SampleLengths == {0, 439, 440, 480, 30000, 44100, 96000, 132300}
ClickPeriods == {0, 50, 66, 67, 100, 133, 250}
ClickLevels == {Rat(1, 2), R(2)}

BpmBuffers ==
    [sampleRate : SampleRates, length : SampleLengths, period : ClickPeriods,
     level : {R(1)}, accent : ClickLevels]

noDetection == [audioBuffer |-> null, promise |-> "none", value |-> null]

(* envelope[i] of calculateOnsetEnvelope: the RMS of the filtered frame i *)
frameRms(audioBuffer, i) ==
    IF audioBuffer.period = 0 \/ i % audioBuffer.period \notin {1, 2} THEN R(0)
    ELSE IF (i \div audioBuffer.period) % 2 = 0 THEN audioBuffer.level
    ELSE audioBuffer.accent

RECURSIVE RMaxOf(_, _)
RMaxOf(S, acc) ==
    IF S = {} THEN acc
    ELSE LET x == CHOOSE y \in S : TRUE IN RMaxOf(S \ {x}, RMax(acc, x))

(* The onset function, a Float32Array indexed from 0, or the RangeError     *)
(* thrown when the typed array cannot be created because numFrames is      *)
(* negative.  Math.max of no arguments is -Infinity, which takes the same   *)
(* branch as a peak 0.                                                      *)
calculateOnsetEnvelope(audioBuffer) ==
    LET hopSize == audioBuffer.sampleRate \div analysisRate
        frameSize == hopSize * 2
        numFrames == (audioBuffer.length - frameSize) \div hopSize
    IN  IF numFrames < 0 THEN [thrown |-> "RangeError", onset |-> <<>>]
        ELSE LET onset == [i \in 0..(numFrames - 1) |->
                              IF i = 0 THEN R(0)
                              ELSE LET diff == RSub(frameRms(audioBuffer, i),
                                                    frameRms(audioBuffer, i - 1))
                                   IN  IF RLt(R(0), diff) THEN diff ELSE R(0)]
                 maxOnset == RMaxOf({onset[i] : i \in DOMAIN onset}, R(0))
             IN  [thrown |-> "none",
                  onset |-> IF RLt(R(0), maxOnset)
                            THEN [i \in DOMAIN onset |-> RDiv(onset[i], maxOnset)]
                            ELSE onset]

RECURSIVE RSumOver(_, _, _, _)
RSumOver(S, envelope, lag, acc) ==
    IF S = {} THEN acc
    ELSE LET i == CHOOSE j \in S : TRUE
         IN  RSumOver(S \ {i}, envelope, lag,
                      RAdd(acc, RMul(envelope[i], envelope[i + lag])))

(* Math.round(x * 10) / 10 for x >= 0 *)
roundToTenth(x) == Rat((20 * x[1] + x[2]) \div (2 * x[2]), 10)

inTargetRange(bpm) == RLe(R(targetMinBPM), bpm) /\ RLe(bpm, R(targetMaxBPM))

(* the score of one harmonic: the correlation of the first entry less than *)
(* 2 BPM away, with the bonus of the target range                          *)
harmonicScore(testBPM, correlations) ==
    LET near == {lag \in DOMAIN correlations :
                    RLt(RAbs(RSub(correlations[lag].bpm, testBPM)), R(2))}
        score == IF near = {} THEN R(0)
                 ELSE correlations[CHOOSE lag \in near : \A l \in near : lag <= l].correlation
    IN  IF inTargetRange(testBPM) THEN RMul(score, Rat(13, 10)) ELSE score

RECURSIVE refineLoop(_, _, _, _, _)
refineLoop(harmonics, bpm, correlations, bestBPM, bestScore) ==
    IF harmonics = <<>> THEN bestBPM
    ELSE LET testBPM == RMul(bpm, Head(harmonics))
             rest == Tail(harmonics)
         IN  IF RLt(testBPM, R(minBPM)) \/ RLt(R(maxBPM), testBPM)
             THEN refineLoop(rest, bpm, correlations, bestBPM, bestScore)
             ELSE LET score == harmonicScore(testBPM, correlations)
                  IN  IF RLt(bestScore, score)
                      THEN refineLoop(rest, bpm, correlations, testBPM, score)
                      ELSE refineLoop(rest, bpm, correlations, bestBPM, bestScore)

refineWithHarmonics(bpm, correlations) ==
    refineLoop(<<Rat(1, 2), R(1), R(2)>>, bpm, correlations, bpm, R(0))

(* The sums skip the products whose first factor is 0. *)
autocorrelationBPM(envelope) ==
    LET minLag == (60 * analysisRate) \div maxBPM
        maxLag == (60 * analysisRate) \div minBPM
        length == Cardinality(DOMAIN envelope)
        onsets == {i \in DOMAIN envelope : envelope[i] # R(0)}
        correlations ==
            [lag \in minLag..maxLag |->
                LET count == IF length > lag THEN length - lag ELSE 0
                    sum == RSumOver({i \in onsets : i + lag < length}, envelope, lag, R(0))
                    correlation == IF count > 0 THEN RDiv(sum, R(count)) ELSE sum
                    bpm == Rat(60 * analysisRate, lag)
                    bonus == IF inTargetRange(bpm) THEN Rat(6, 5) ELSE R(1)
                IN  [lag |-> lag, bpm |-> bpm, correlation |-> RMul(correlation, bonus)]]
        best == CHOOSE lag \in DOMAIN correlations :
                    \A l \in DOMAIN correlations :
                        /\ RLe(correlations[l].correlation, correlations[lag].correlation)
                        /\ l < lag => RLt(correlations[l].correlation,
                                          correlations[lag].correlation)
    IN  roundToTenth(refineWithHarmonics(correlations[best].bpm, correlations))

(* detect: the promise it returns, rejected when its executor throws *)
detect(audioBuffer) ==
    LET envelope == calculateOnsetEnvelope(audioBuffer)
    IN  IF envelope.thrown # "none"
        THEN [audioBuffer |-> audioBuffer, promise |-> "rejected", value |-> null]
        ELSE [audioBuffer |-> audioBuffer, promise |-> "fulfilled",
              value |-> autocorrelationBPM(envelope.onset)]

-----------------------------------------------------------------------------
(* AudioEngine: state *)

(* source is the deck's AudioBufferSourceNode: "null", "playing" (started,   *)
(* its ended event not yet delivered) or "finished".  endedQueued says that *)
(* the ended event of a source that was stopped while its onended handler   *)
(* was still attached is waiting in the event loop.  pitchSemitones is the  *)
(* field called pitch in audioEngine.js.  sourceBuffer is source.buffer,    *)
(* the track the source was created for.                                    *)
createDeckState(id) ==
    [ id |-> id,
      audioBuffer |-> noBuffer,
      sourceBuffer |-> noBuffer,
      source |-> "null",
      gain |-> [volume |-> R(1), position |-> IF id = "A" THEN R(0) ELSE R(1)],
      isPlaying |-> FALSE,
      isPaused |-> FALSE,
      startTime |-> R(0),
      pauseTime |-> R(0),
      startOffset |-> R(0),
      currentPosition |-> R(0),
      duration |-> R(0),
      tempo |-> R(1),
      volume |-> R(1),
      cuePoint |-> R(0),
      hotCues |-> [i \in 1..HotCueSlots |-> null],
      bpm |-> R(0),
      eqLowValue |-> R(0),
      eqMidValue |-> R(0),
      eqHighValue |-> R(0),
      pitchSemitones |-> R(0),
      preservesPitch |-> TRUE,
      endedQueued |-> FALSE ]

createAutoMixer ==
    [ enabled |-> FALSE,
      isMixing |-> FALSE,
      mixingFromDeck |-> noDeck,
      mixingToDeck |-> noDeck,
      fadeStartTime |-> 0,
      fadeTimer |-> 0,
      originalVolumes |-> [d \in DeckIds |-> R(1)],
      targetTempo |-> null,
      tempoResetTimer |-> 0 ]

(* The world a handler runs in: every handler below is a function from    *)
(* world to world, so that a handler can call another one.                *)
World ==
    [ variant |-> variant,
      currentTime |-> currentTime,
      dateNow |-> dateNow,
      decks |-> decks,
      crossfaderPosition |-> crossfaderPosition,
      autoMixer |-> autoMixer,
      timers |-> timers,
      nextTimerId |-> nextTimerId,
      emitted |-> <<>> ]

(* new AudioEngine(), init() and new AutoMixer(engine) *)
constructor(v) ==
    [ variant |-> v,
      currentTime |-> R(0),
      dateNow |-> 0,
      decks |-> [d \in DeckIds |-> createDeckState(d)],
      crossfaderPosition |-> Rat(1, 2),
      autoMixer |-> createAutoMixer,
      timers |-> {},
      nextTimerId |-> 1,
      emitted |-> <<>> ]

Event(name, d, args) == [name |-> name, deck |-> d, args |-> args]


Emit(w, e) == [w EXCEPT !.emitted = Append(@, e)]

IsActive(deck) == deck.isPlaying /\ ~deck.isPaused

(* gainNode.gain.value = volume * busGain(position): kept as the pair it was *)
(* computed from.  A freshly created GainNode has gain 1, which is volume 1  *)
(* times the bus gain of the crossfader turned fully to that deck.           *)
updateCrossfaderGains(w) ==
    [w EXCEPT !.decks = [d \in DeckIds |->
        [w.decks[d] EXCEPT !.gain = [volume |-> w.decks[d].volume,
                                     position |-> w.crossfaderPosition]]]]

-----------------------------------------------------------------------------
(* AudioEngine: position *)

getPositionAE(w, d) ==
    LET deck == w.decks[d] IN
    IF deck.audioBuffer = noBuffer THEN R(0)
    ELSE IF deck.isPaused \/ ~deck.isPlaying THEN deck.pauseTime
    ELSE RMin(RMul(RSub(w.currentTime, deck.startTime), deck.tempo), deck.duration)

getPositionKnob(w, d) ==
    LET deck == w.decks[d] IN
    IF deck.audioBuffer = noBuffer THEN R(0)
    ELSE IF deck.isPaused \/ ~deck.isPlaying THEN deck.currentPosition
    ELSE RMin(RAdd(deck.startOffset,
                   RMul(RSub(w.currentTime, deck.startTime), deck.tempo)),
              deck.duration)

getPosition(w, d) ==
    IF w.variant = "audioEngine" THEN getPositionAE(w, d) ELSE getPositionKnob(w, d)

-----------------------------------------------------------------------------
(* AudioEngine: transport *)

stopAE_noRewind(w, d) ==
    Emit([w EXCEPT !.decks[d] = [@ EXCEPT !.source = "null",
                                          !.isPlaying = FALSE,
                                          !.isPaused = FALSE,
                                          !.pauseTime = getPositionAE(w, d),
                                          !.startTime = R(0)]],
         Event("stop", d, <<>>))

stopAE(w, d) ==
    Emit([w EXCEPT !.decks[d] = [@ EXCEPT !.source = "null",
                                          !.isPlaying = FALSE,
                                          !.isPaused = FALSE,
                                          !.pauseTime = w.decks[d].cuePoint,
                                          !.startTime = R(0)]],
         Event("stop", d, <<>>))

stopKnob(w, d) ==
    Emit([w EXCEPT !.decks[d] = [@ EXCEPT !.source = "null",
                                          !.endedQueued = @ \/ w.decks[d].source = "playing",
                                          !.isPlaying = FALSE,
                                          !.isPaused = FALSE,
                                          !.currentPosition = w.decks[d].cuePoint]],
         Event("stop", d, <<>>))

stop(w, d) == IF w.variant = "audioEngine" THEN stopAE(w, d) ELSE stopKnob(w, d)

playAE(w, d) ==
    LET deck == w.decks[d] IN
    IF deck.audioBuffer = noBuffer THEN w
    ELSE IF IsActive(deck) THEN w
    ELSE LET offset == deck.pauseTime
             w1 == [w EXCEPT !.decks[d] =
                       [@ EXCEPT !.source = "playing",
                                 !.sourceBuffer = deck.audioBuffer,
                                 !.startTime = RSub(w.currentTime, RDiv(offset, deck.tempo)),
                                 !.isPlaying = TRUE,
                                 !.isPaused = FALSE]]
         IN  Emit(updateCrossfaderGains(w1), Event("play", d, <<>>))

playKnob_fromStart(w, d) ==
    LET deck == w.decks[d] IN
    IF deck.audioBuffer = noBuffer THEN w
    ELSE IF IsActive(deck) THEN w
    ELSE LET w1 == [w EXCEPT !.decks[d] =
                       [@ EXCEPT !.source = "playing",
                                 !.sourceBuffer = deck.audioBuffer,
                                 !.endedQueued = @ \/ deck.source = "playing",
                                 !.startTime = w.currentTime,
                                 !.startOffset = R(0),
                                 !.isPlaying = TRUE,
                                 !.isPaused = FALSE]]
         IN  Emit(updateCrossfaderGains(w1), Event("play", d, <<>>))

playKnob(w, d) ==
    LET deck == w.decks[d] IN
    IF deck.audioBuffer = noBuffer THEN w
    ELSE IF IsActive(deck) THEN w
    ELSE LET offset == deck.currentPosition
             w1 == [w EXCEPT !.decks[d] =
                       [@ EXCEPT !.source = "playing",
                                 !.sourceBuffer = deck.audioBuffer,
                                 !.endedQueued = @ \/ deck.source = "playing",
                                 !.startTime = w.currentTime,
                                 !.startOffset = offset,
                                 !.isPlaying = TRUE,
                                 !.isPaused = FALSE]]
         IN  Emit(updateCrossfaderGains(w1), Event("play", d, <<>>))

play(w, d) == IF w.variant = "audioEngine" THEN playAE(w, d) ELSE playKnob(w, d)

pauseAE_unguarded(w, d) ==
    Emit([w EXCEPT !.decks[d] = [@ EXCEPT !.pauseTime = getPositionAE(w, d),
                                          !.source = "null",
                                          !.isPaused = TRUE]],
         Event("pause", d, <<>>))

pauseAE(w, d) ==
    LET deck == w.decks[d] IN
    IF ~deck.isPlaying \/ deck.isPaused THEN w
    ELSE Emit([w EXCEPT !.decks[d] = [@ EXCEPT !.pauseTime = getPositionAE(w, d),
                                               !.source = "null",
                                               !.isPaused = TRUE]],
              Event("pause", d, <<>>))

pauseKnob(w, d) ==
    LET deck == w.decks[d] IN
    IF ~deck.isPlaying \/ deck.isPaused THEN w
    ELSE Emit([w EXCEPT !.decks[d] = [@ EXCEPT !.currentPosition = getPositionKnob(w, d),
                                               !.source = "null",
                                               !.endedQueued = @ \/ deck.source = "playing",
                                               !.isPaused = TRUE]],
              Event("pause", d, <<>>))

(* a pause that sets the flag and leaves the stored position as it was *)
pause_stalePosition(w, d) ==
    LET w1 == IF w.variant = "audioEngine" THEN pauseAE(w, d) ELSE pauseKnob(w, d)
    IN  [w1 EXCEPT !.decks[d].pauseTime = w.decks[d].pauseTime,
                   !.decks[d].currentPosition = w.decks[d].currentPosition]

pause(w, d) == IF w.variant = "audioEngine" THEN pauseAE(w, d) ELSE pauseKnob(w, d)

seekAE_unclamped(w, d, position) ==
    LET deck == w.decks[d] IN
    IF deck.audioBuffer = noBuffer THEN w
    ELSE LET wasPlaying == IsActive(deck)
             w1 == IF wasPlaying THEN pauseAE(w, d) ELSE w
             w2 == [w1 EXCEPT !.decks[d].pauseTime = position]
             w3 == IF wasPlaying THEN playAE(w2, d) ELSE w2
         IN  Emit(w3, Event("seek", d, <<position>>))

seekAE(w, d, position) ==
    LET deck == w.decks[d] IN
    IF deck.audioBuffer = noBuffer THEN w
    ELSE LET pos == clamp(position, R(0), deck.duration)
             wasPlaying == IsActive(deck)
             w1 == IF wasPlaying THEN pauseAE(w, d) ELSE w
             w2 == [w1 EXCEPT !.decks[d].pauseTime = pos]
             w3 == IF wasPlaying THEN playAE(w2, d) ELSE w2
         IN  Emit(w3, Event("seek", d, <<pos>>))

seekKnob(w, d, position) ==
    LET deck == w.decks[d] IN
    IF deck.audioBuffer = noBuffer THEN w
    ELSE LET pos == clamp(position, R(0), deck.duration)
             wasPlaying == IsActive(deck)
             w1 == [w EXCEPT !.decks[d] = [@ EXCEPT !.source = "null",
                                                    !.endedQueued = @ \/ deck.source = "playing",
                                                    !.currentPosition = pos,
                                                    !.isPlaying = FALSE,
                                                    !.isPaused = FALSE]]
             w2 == IF wasPlaying THEN playKnob(w1, d) ELSE w1
         IN  Emit(w2, Event("seek", d, <<pos>>))

seek(w, d, position) ==
    IF w.variant = "audioEngine" THEN seekAE(w, d, position) ELSE seekKnob(w, d, position)

-----------------------------------------------------------------------------
(* AudioEngine: tempo, volume, cues, sync *)

(* setTempo that stores the new tempo without re-anchoring the clock *)
setTempoAE_noReanchor(w, d, ratio) ==
    LET tempo == clamp(ratio, TempoMin, TempoMax)
    IN  Emit([w EXCEPT !.decks[d].tempo = tempo], Event("tempoChange", d, <<tempo>>))

setTempoAE(w, d, ratio) ==
    LET deck == w.decks[d]
        tempo == clamp(ratio, TempoMin, TempoMax)
        pos == getPositionAE(w, d)
        w1 == IF IsActive(deck)
              THEN [w EXCEPT !.decks[d] =
                      [@ EXCEPT !.pauseTime = pos,
                                !.startTime = RSub(w.currentTime, RDiv(pos, tempo))]]
              ELSE w
    IN  Emit([w1 EXCEPT !.decks[d].tempo = tempo], Event("tempoChange", d, <<tempo>>))

(* knob.js setTempo without the re-anchoring of startTime and startOffset *)
setTempoKnob_noReanchor(w, d, ratio) ==
    LET tempo == clamp(ratio, TempoMin, TempoMax)
    IN  Emit([w EXCEPT !.decks[d].tempo = tempo], Event("tempoChange", d, <<tempo>>))

setTempoKnob(w, d, ratio) ==
    LET deck == w.decks[d]
        tempo == clamp(ratio, TempoMin, TempoMax)
        pos == getPositionKnob(w, d)
        w1 == IF IsActive(deck)
              THEN [w EXCEPT !.decks[d] =
                      [@ EXCEPT !.currentPosition = pos,
                                !.startTime = w.currentTime,
                                !.startOffset = pos]]
              ELSE w
    IN  Emit([w1 EXCEPT !.decks[d].tempo = tempo], Event("tempoChange", d, <<tempo>>))

setTempo(w, d, ratio) ==
    IF w.variant = "audioEngine" THEN setTempoAE(w, d, ratio) ELSE setTempoKnob(w, d, ratio)

setVolume(w, d, volume) ==
    Emit(updateCrossfaderGains([w EXCEPT !.decks[d].volume = clamp(volume, R(0), R(1))]),
         Event("volumeChange", d, <<volume>>))

setCuePoint(w, d) ==
    LET pos == getPosition(w, d) IN
    Emit([w EXCEPT !.decks[d].cuePoint = pos], Event("cuePointSet", d, <<pos>>))

setHotCue(w, d, index) ==
    IF index < 1 \/ index > HotCueSlots THEN w
    ELSE LET pos == getPosition(w, d) IN
         Emit([w EXCEPT !.decks[d].hotCues[index] = pos],
              Event("hotCueSet", d, <<R(index), pos>>))

goToCue(w, d) == seek(w, d, w.decks[d].cuePoint)

goToHotCue(w, d, index) ==
    IF index < 1 \/ index > HotCueSlots THEN w
    ELSE LET position == w.decks[d].hotCues[index] IN
         IF position # null
         THEN LET w1 == seek(w, d, position)
              IN  IF ~w1.decks[d].isPlaying \/ w1.decks[d].isPaused
                  THEN play(w1, d)
                  ELSE w1
         ELSE setHotCue(w, d, index)

clearHotCue(w, d, index) ==
    IF index < 1 \/ index > HotCueSlots THEN w
    ELSE Emit([w EXCEPT !.decks[d].hotCues[index] = null],
              Event("hotCueCleared", d, <<R(index)>>))

setEQ(w, d, band, value) ==
    LET v == clamp(value, R(-12), R(12))
        w1 == IF band = "low" THEN [w EXCEPT !.decks[d].eqLowValue = v]
              ELSE IF band = "mid" THEN [w EXCEPT !.decks[d].eqMidValue = v]
              ELSE IF band = "high" THEN [w EXCEPT !.decks[d].eqHighValue = v]
              ELSE w
    IN  Emit(w1, Event("eqChange", d, <<band, v>>))

setCrossfader(w, position) ==
    Emit(updateCrossfaderGains([w EXCEPT !.crossfaderPosition = clamp(position, R(0), R(1))]),
         Event("crossfaderChange", noDeck, <<position>>))

(* Switching the pitch mode restarts a Playing deck's source.  The class   *)
(* of audioEngine.js has no such method: there the call throws before it   *)
(* changes anything.                                                       *)
(* setPreservesPitch that restarts without storing the position first *)
setPreservesPitch_stalePosition(w, d, preserve) ==
    LET deck == w.decks[d]
        w1 == [w EXCEPT !.decks[d].preservesPitch = preserve]
    IN  IF w.variant = "audioEngine" THEN w
        ELSE IF IsActive(deck)
        THEN LET w2 == [w1 EXCEPT !.decks[d] =
                          [@ EXCEPT !.source = "null",
                                    !.endedQueued = @ \/ deck.source = "playing",
                                    !.isPlaying = FALSE]]
             IN  playKnob(w2, d)
        ELSE w1

setPreservesPitch(w, d, preserve) ==
    LET deck == w.decks[d]
        w1 == [w EXCEPT !.decks[d].preservesPitch = preserve]
    IN  IF w.variant = "audioEngine" THEN w
        ELSE IF IsActive(deck)
        THEN LET currentPos == getPositionKnob(w1, d)
                 w2 == [w1 EXCEPT !.decks[d] =
                          [@ EXCEPT !.source = "null",
                                    !.endedQueued = @ \/ deck.source = "playing",
                                    !.currentPosition = currentPos,
                                    !.isPlaying = FALSE]]
             IN  playKnob(w2, d)
        ELSE w1

setPitch_unclamped(w, d, semitones) ==
    IF w.variant = "audioEngine" THEN w
    ELSE Emit([w EXCEPT !.decks[d].pitchSemitones = semitones],
              Event("pitchChange", d, <<semitones>>))

(* a method of knob.js only, as setPreservesPitch *)
setPitch(w, d, semitones) ==
    LET v == clamp(semitones, R(-12), R(12))
    IN  IF w.variant = "audioEngine" THEN w
        ELSE Emit([w EXCEPT !.decks[d].pitchSemitones = v], Event("pitchChange", d, <<v>>))

(* DJMixApp.adjustTempo: the keyboard shortcuts *)
adjustTempo(w, d, delta) ==
    setTempo(w, d, clamp(RAdd(w.decks[d].tempo, delta), Rat(1, 2), R(2)))

sync_ownBpmRatio(w, d) ==
    LET sourceDeck == w.decks[OtherDeck(d)]
        targetDeck == w.decks[d]
    IN  IF sourceDeck.bpm = R(0) \/ targetDeck.bpm = R(0) THEN w
        ELSE LET tempoRatio == RDiv(sourceDeck.bpm, targetDeck.bpm)
             IN  Emit(setTempo(w, d, clamp(tempoRatio, TempoMin, TempoMax)),
                      Event("sync", d, <<tempoRatio>>))

sync(w, d) ==
    LET sourceDeck == w.decks[OtherDeck(d)]
        targetDeck == w.decks[d]
    IN  IF sourceDeck.bpm = R(0) \/ targetDeck.bpm = R(0) THEN w
        ELSE LET tempoRatio == RDiv(RMul(sourceDeck.bpm, sourceDeck.tempo), targetDeck.bpm)
             IN  Emit(setTempo(w, d, clamp(tempoRatio, TempoMin, TempoMax)),
                      Event("sync", d, <<tempoRatio>>))

-----------------------------------------------------------------------------
(* AudioEngine: loadTrack, an async function.  loadTrackBegin is the part  *)
(* before the first await (file read, then decode); loadTrackResume is the *)
(* part after the decode.  BPMDetector.detect settles its promise inside   *)
(* the executor, so the await on it yields to no timer or input event.     *)
(* A rejected decode or a rejected detect rejects loadTrack at that await: *)
(* the statements after it do not run.                                     *)

loadTrackBegin(w, d) == stop(w, d)

(* the promise of audioContext.decodeAudioData for the bytes of file t *)
decodeAudioData(t) ==
    IF t = CorruptFile THEN [promise |-> "rejected", audioBuffer |-> noBuffer]
    ELSE [promise |-> "fulfilled", audioBuffer |-> t]

(* the promise of bpmDetector.detect for the decoded buffer of file t *)
detectTrack(t) ==
    IF t = ShortTrack THEN detect(ShortBuffer)
    ELSE [audioBuffer |-> t, promise |-> "fulfilled", value |-> TrackBpm(t)]

(* a load that keeps the cue point and the hot cues of the previous track *)
loadTrackResume_keepsCues(w, d, t) ==
    LET decoded == decodeAudioData(t) IN
    IF decoded.promise = "rejected" THEN w
    ELSE LET audioBuffer == decoded.audioBuffer
             w1 == [w EXCEPT !.decks[d] =
                       [@ EXCEPT !.audioBuffer = audioBuffer,
                                 !.duration = TrackDuration(audioBuffer),
                                 !.pauseTime = IF w.variant = "audioEngine"
                                               THEN R(0) ELSE @,
                                 !.currentPosition = IF w.variant = "knob"
                                                     THEN R(0) ELSE @]]
             detected == detectTrack(audioBuffer)
         IN  IF detected.promise = "rejected" THEN w1
             ELSE Emit([w1 EXCEPT !.decks[d].bpm = detected.value],
                       Event("trackLoaded", d,
                             <<TrackDuration(audioBuffer), detected.value>>))

loadTrackResume(w, d, t) ==
    LET decoded == decodeAudioData(t) IN
    IF decoded.promise = "rejected" THEN w
    ELSE LET audioBuffer == decoded.audioBuffer
             w1 == [w EXCEPT !.decks[d] =
                       [@ EXCEPT !.audioBuffer = audioBuffer,
                                 !.duration = TrackDuration(audioBuffer),
                                 !.pauseTime = IF w.variant = "audioEngine"
                                               THEN R(0) ELSE @,
                                 !.currentPosition = IF w.variant = "knob"
                                                     THEN R(0) ELSE @,
                                 !.cuePoint = R(0),
                                 !.hotCues = [i \in 1..HotCueSlots |-> null]]]
             detected == detectTrack(audioBuffer)
         IN  IF detected.promise = "rejected" THEN w1
             ELSE Emit([w1 EXCEPT !.decks[d].bpm = detected.value],
                       Event("trackLoaded", d,
                             <<TrackDuration(audioBuffer), detected.value>>))

(* source.onended: the buffer source played to the end of its buffer *)
onendedAE(w, d) ==
    LET w1 == [w EXCEPT !.decks[d].source = "finished"] IN
    IF IsActive(w.decks[d])
    THEN Emit(stopAE(w1, d), Event("trackEnded", d, <<>>))
    ELSE w1

onendedKnob(w, d) ==
    LET w1 == [w EXCEPT !.decks[d].source = "finished"] IN
    IF IsActive(w.decks[d])
       /\ RLe(RSub(w.decks[d].duration, EndTolerance), getPositionKnob(w, d))
    THEN Emit(stopKnob(w1, d), Event("trackEnded", d, <<>>))
    ELSE w1

(* the ended event of a source that pause, stop, seek, play or a pitch-mode  *)
(* restart of knob.js stopped: its handler reads the deck, not the source   *)
onendedStopped(w, d) ==
    LET w1 == [w EXCEPT !.decks[d].endedQueued = FALSE] IN
    IF IsActive(w.decks[d])
       /\ RLe(RSub(w.decks[d].duration, EndTolerance), getPositionKnob(w, d))
    THEN Emit(stopKnob(w1, d), Event("trackEnded", d, <<>>))
    ELSE w1

onended(w, d) == IF w.variant = "audioEngine" THEN onendedAE(w, d) ELSE onendedKnob(w, d)

(* The position the playing source has reached in its buffer *)
SourcePosition(w, d) ==
    LET deck == w.decks[d] IN
    IF w.variant = "audioEngine"
    THEN RMul(RSub(w.currentTime, deck.startTime), deck.tempo)
    ELSE RAdd(deck.startOffset, RMul(RSub(w.currentTime, deck.startTime), deck.tempo))


-----------------------------------------------------------------------------
(* The runtime's timer table: setInterval / setTimeout / clear*.  A timer  *)
(* record carries the variables its callback closes over.                  *)

Timer(id, kind, d, currentTempo, tempoStep, currentStep) ==
    [id |-> id, kind |-> kind, deck |-> d, currentTempo |-> currentTempo,
     tempoStep |-> tempoStep, currentStep |-> currentStep]

setTimer(w, kind, d, currentTempo, tempoStep, currentStep) ==
    [w EXCEPT !.timers = @ \cup {Timer(w.nextTimerId, kind, d, currentTempo,
                                       tempoStep, currentStep)},
              !.nextTimerId = @ + 1]

clearTimer(w, id) == [w EXCEPT !.timers = {t \in @ : t.id # id}]

-----------------------------------------------------------------------------
(* AutoMixer *)

startTempoReset(w, d) ==
    LET currentTempo == w.decks[d].tempo
        targetTempo == R(1)
    IN  IF RLt(RAbs(RSub(currentTempo, targetTempo)), ResetThreshold) THEN w
        ELSE LET tempoStep == RDiv(RSub(targetTempo, currentTempo), R(steps))
                 w1 == setTimer(w, "reset", d, currentTempo, tempoStep, 0)
             IN  [w1 EXCEPT !.autoMixer.tempoResetTimer = w.nextTimerId]

(* a reset step that does not schedule the next one *)
resetStep_once(w, t) ==
    LET currentStep == t.currentStep + 1
        newTempo == RAdd(t.currentTempo, RMul(t.tempoStep, R(currentStep)))
    IN  setTempo(w, t.deck, newTempo)

(* resetStep: the closure scheduled by startTempoReset; t is the timer that fired *)
resetStep(w, t) ==
    LET currentStep == t.currentStep + 1
        newTempo == RAdd(t.currentTempo, RMul(t.tempoStep, R(currentStep)))
        w1 == setTempo(w, t.deck, newTempo)
    IN  IF currentStep < steps
        THEN [setTimer(w1, "reset", t.deck, t.currentTempo, t.tempoStep, currentStep)
                EXCEPT !.autoMixer.tempoResetTimer = w1.nextTimerId]
        ELSE setTempo(w1, t.deck, R(1))

(* the closure scheduled by completeMix to restore the outgoing deck's volume *)
restoreOutgoingVolume(w, t) ==
    setVolume(w, t.deck, w.autoMixer.originalVolumes[t.deck])

(* completeMix that leaves the outgoing deck running *)
completeMix_noStop(w) ==
    LET fromDeck == w.autoMixer.mixingFromDeck
        toDeck == w.autoMixer.mixingToDeck
        w1 == [clearTimer(w, w.autoMixer.fadeTimer) EXCEPT !.autoMixer.fadeTimer = 0]
        w2 == setVolume(w1, fromDeck, R(0))
        w3 == setVolume(w2, toDeck, w.autoMixer.originalVolumes[toDeck])
        w5 == setTimer(w3, "grace", fromDeck, null, null, 0)
        w6 == startTempoReset(w5, toDeck)
        w7 == Emit(w6, Event("autoMixComplete", fromDeck, <<toDeck>>))
    IN  [w7 EXCEPT !.autoMixer.isMixing = FALSE,
                   !.autoMixer.mixingFromDeck = noDeck,
                   !.autoMixer.mixingToDeck = noDeck]

(* completeMix that forgets to unset the two decks of the session *)
completeMix_keepsDecks(w) ==
    LET fromDeck == w.autoMixer.mixingFromDeck
        toDeck == w.autoMixer.mixingToDeck
        w1 == [clearTimer(w, w.autoMixer.fadeTimer) EXCEPT !.autoMixer.fadeTimer = 0]
        w2 == setVolume(w1, fromDeck, R(0))
        w3 == setVolume(w2, toDeck, w.autoMixer.originalVolumes[toDeck])
        w4 == stop(w3, fromDeck)
        w5 == setTimer(w4, "grace", fromDeck, null, null, 0)
        w6 == startTempoReset(w5, toDeck)
        w7 == Emit(w6, Event("autoMixComplete", fromDeck, <<toDeck>>))
    IN  [w7 EXCEPT !.autoMixer.isMixing = FALSE]

completeMix(w) ==
    LET fromDeck == w.autoMixer.mixingFromDeck
        toDeck == w.autoMixer.mixingToDeck
        w1 == [clearTimer(w, w.autoMixer.fadeTimer) EXCEPT !.autoMixer.fadeTimer = 0]
        w2 == setVolume(w1, fromDeck, R(0))
        w3 == setVolume(w2, toDeck, w.autoMixer.originalVolumes[toDeck])
        w4 == stop(w3, fromDeck)
        w5 == setTimer(w4, "grace", fromDeck, null, null, 0)
        w6 == startTempoReset(w5, toDeck)
        w7 == Emit(w6, Event("autoMixComplete", fromDeck, <<toDeck>>))
    IN  [w7 EXCEPT !.autoMixer.isMixing = FALSE,
                   !.autoMixer.mixingFromDeck = noDeck,
                   !.autoMixer.mixingToDeck = noDeck]

(* performFade with the two ramps exchanged *)
performFade_swapped(w) ==
    IF ~w.autoMixer.isMixing THEN w
    ELSE LET elapsed == Rat(w.dateNow - w.autoMixer.fadeStartTime, 1000)
             progress == RMin(RDiv(elapsed, R(fadeTime)), R(1))
             fromDeck == w.autoMixer.mixingFromDeck
             toDeck == w.autoMixer.mixingToDeck
             outgoingVolume == RMul(w.autoMixer.originalVolumes[fromDeck], progress)
             incomingVolume == RMul(w.autoMixer.originalVolumes[toDeck],
                                    RSub(R(1), progress))
             w1 == setVolume(w, fromDeck, outgoingVolume)
             w2 == setVolume(w1, toDeck, incomingVolume)
         IN  IF RLe(R(1), progress) THEN completeMix(w2) ELSE w2

(* performFade that sets the volumes and never completes the mix *)
performFade_noCompletion(w) ==
    IF ~w.autoMixer.isMixing THEN w
    ELSE LET elapsed == Rat(w.dateNow - w.autoMixer.fadeStartTime, 1000)
             progress == RMin(RDiv(elapsed, R(fadeTime)), R(1))
             fromDeck == w.autoMixer.mixingFromDeck
             toDeck == w.autoMixer.mixingToDeck
             outgoingVolume == RMul(w.autoMixer.originalVolumes[fromDeck],
                                    RSub(R(1), progress))
             incomingVolume == RMul(w.autoMixer.originalVolumes[toDeck], progress)
             w1 == setVolume(w, fromDeck, outgoingVolume)
         IN  setVolume(w1, toDeck, incomingVolume)

performFade(w) ==
    IF ~w.autoMixer.isMixing THEN w
    ELSE LET elapsed == Rat(w.dateNow - w.autoMixer.fadeStartTime, 1000)
             progress == RMin(RDiv(elapsed, R(fadeTime)), R(1))
             fromDeck == w.autoMixer.mixingFromDeck
             toDeck == w.autoMixer.mixingToDeck
             outgoingVolume == RMul(w.autoMixer.originalVolumes[fromDeck],
                                    RSub(R(1), progress))
             incomingVolume == RMul(w.autoMixer.originalVolumes[toDeck], progress)
             w1 == setVolume(w, fromDeck, outgoingVolume)
             w2 == setVolume(w1, toDeck, incomingVolume)
         IN  IF RLe(R(1), progress) THEN completeMix(w2) ELSE w2

(* startMix that starts the incoming deck before it is silenced and synced *)
startMix_playFirst(w, fromDeckId, toDeckId) ==
    IF w.autoMixer.isMixing THEN w
    ELSE LET fromDeck == w.decks[fromDeckId]
             toDeck == w.decks[toDeckId]
             w1 == [w EXCEPT !.autoMixer =
                      [@ EXCEPT !.isMixing = TRUE,
                                !.mixingFromDeck = fromDeckId,
                                !.mixingToDeck = toDeckId,
                                !.fadeStartTime = w.dateNow,
                                !.originalVolumes =
                                    [d \in DeckIds |->
                                        IF d = fromDeckId THEN fromDeck.volume
                                        ELSE IF d = toDeckId THEN toDeck.volume
                                        ELSE w.autoMixer.originalVolumes[d]],
                                !.targetTempo = toDeck.tempo]]
             w2 == play(w1, toDeckId)
             w3 == setVolume(w2, toDeckId, R(0))
             w4 == sync(w3, toDeckId)
             w5 == [setTimer(w4, "fade", noDeck, null, null, 0)
                      EXCEPT !.autoMixer.fadeTimer = w4.nextTimerId]
         IN  Emit(w5, Event("autoMixStart", fromDeckId, <<toDeckId>>))

startMix(w, fromDeckId, toDeckId) ==
    IF w.autoMixer.isMixing THEN w
    ELSE LET fromDeck == w.decks[fromDeckId]
             toDeck == w.decks[toDeckId]
             w1 == [w EXCEPT !.autoMixer =
                      [@ EXCEPT !.isMixing = TRUE,
                                !.mixingFromDeck = fromDeckId,
                                !.mixingToDeck = toDeckId,
                                !.fadeStartTime = w.dateNow,
                                !.originalVolumes =
                                    [d \in DeckIds |->
                                        IF d = fromDeckId THEN fromDeck.volume
                                        ELSE IF d = toDeckId THEN toDeck.volume
                                        ELSE w.autoMixer.originalVolumes[d]],
                                !.targetTempo = toDeck.tempo]]
             w2 == setVolume(w1, toDeckId, R(0))
             w3 == sync(w2, toDeckId)
             w4 == play(w3, toDeckId)
             w5 == [setTimer(w4, "fade", noDeck, null, null, 0)
                      EXCEPT !.autoMixer.fadeTimer = w4.nextTimerId]
         IN  Emit(w5, Event("autoMixStart", fromDeckId, <<toDeckId>>))

(* checkPosition that starts over while a mix is in progress *)
checkPosition_restarting(w, deckId, position, duration) ==
    IF ~w.autoMixer.enabled THEN w
    ELSE LET deck == w.decks[deckId] IN
         IF ~deck.isPlaying \/ deck.isPaused THEN w
         ELSE LET timeRemaining == RSub(duration, position) IN
              IF RLe(timeRemaining, R(fadeTime)) /\ RLt(R(0), timeRemaining)
              THEN LET otherDeckId == OtherDeck(deckId)
                       otherDeck == w.decks[otherDeckId]
                   IN  IF otherDeck.audioBuffer # noBuffer
                          /\ (~otherDeck.isPlaying \/ otherDeck.isPaused)
                       THEN startMix([w EXCEPT !.autoMixer.isMixing = FALSE],
                                     deckId, otherDeckId)
                       ELSE w
              ELSE w

(* checkPosition without the test that some time remains *)
checkPosition_noPositiveTest(w, deckId, position, duration) ==
    IF ~w.autoMixer.enabled \/ w.autoMixer.isMixing THEN w
    ELSE LET deck == w.decks[deckId] IN
         IF ~deck.isPlaying \/ deck.isPaused THEN w
         ELSE LET timeRemaining == RSub(duration, position) IN
              IF RLe(timeRemaining, R(fadeTime))
              THEN LET otherDeckId == OtherDeck(deckId)
                       otherDeck == w.decks[otherDeckId]
                   IN  IF otherDeck.audioBuffer # noBuffer
                          /\ (~otherDeck.isPlaying \/ otherDeck.isPaused)
                       THEN startMix(w, deckId, otherDeckId)
                       ELSE w
              ELSE w

(* checkPosition that subtracts the wrong way round *)
checkPosition_swapped(w, deckId, position, duration) ==
    IF ~w.autoMixer.enabled \/ w.autoMixer.isMixing THEN w
    ELSE LET deck == w.decks[deckId] IN
         IF ~deck.isPlaying \/ deck.isPaused THEN w
         ELSE LET timeRemaining == RSub(position, duration) IN
              IF RLe(timeRemaining, R(fadeTime)) /\ RLt(R(0), timeRemaining)
              THEN LET otherDeckId == OtherDeck(deckId)
                       otherDeck == w.decks[otherDeckId]
                   IN  IF otherDeck.audioBuffer # noBuffer
                          /\ (~otherDeck.isPlaying \/ otherDeck.isPaused)
                       THEN startMix(w, deckId, otherDeckId)
                       ELSE w
              ELSE w

checkPosition(w, deckId, position, duration) ==
    IF ~w.autoMixer.enabled \/ w.autoMixer.isMixing THEN w
    ELSE LET deck == w.decks[deckId] IN
         IF ~deck.isPlaying \/ deck.isPaused THEN w
         ELSE LET timeRemaining == RSub(duration, position) IN
              IF RLe(timeRemaining, R(fadeTime)) /\ RLt(R(0), timeRemaining)
              THEN LET otherDeckId == OtherDeck(deckId)
                       otherDeck == w.decks[otherDeckId]
                   IN  IF otherDeck.audioBuffer # noBuffer
                          /\ (~otherDeck.isPlaying \/ otherDeck.isPaused)
                       THEN startMix(w, deckId, otherDeckId)
                       ELSE w
              ELSE w

(* cancelMix that restores the outgoing deck only *)
cancelMix_keepIncoming(w) ==
    LET am == w.autoMixer
        w1 == IF am.fadeTimer # 0
              THEN [clearTimer(w, am.fadeTimer) EXCEPT !.autoMixer.fadeTimer = 0]
              ELSE w
        w2 == IF am.tempoResetTimer # 0
              THEN [clearTimer(w1, am.tempoResetTimer) EXCEPT !.autoMixer.tempoResetTimer = 0]
              ELSE w1
        w3 == IF am.mixingFromDeck # noDeck
              THEN setVolume(w2, am.mixingFromDeck, am.originalVolumes[am.mixingFromDeck])
              ELSE w2
    IN  [w3 EXCEPT !.autoMixer.isMixing = FALSE,
                   !.autoMixer.mixingFromDeck = noDeck,
                   !.autoMixer.mixingToDeck = noDeck]

(* cancelMix that announces the cancelled mix as complete *)
cancelMix_announcing(w) ==
    LET am == w.autoMixer
        w1 == IF am.fadeTimer # 0
              THEN [clearTimer(w, am.fadeTimer) EXCEPT !.autoMixer.fadeTimer = 0]
              ELSE w
        w2 == IF am.tempoResetTimer # 0
              THEN [clearTimer(w1, am.tempoResetTimer) EXCEPT !.autoMixer.tempoResetTimer = 0]
              ELSE w1
        w3 == IF am.mixingFromDeck # noDeck
              THEN setVolume(w2, am.mixingFromDeck, am.originalVolumes[am.mixingFromDeck])
              ELSE w2
        w4 == IF am.mixingToDeck # noDeck
              THEN setVolume(w3, am.mixingToDeck, am.originalVolumes[am.mixingToDeck])
              ELSE w3
        w5 == Emit(w4, Event("autoMixComplete", am.mixingFromDeck, <<am.mixingToDeck>>))
    IN  [w5 EXCEPT !.autoMixer.isMixing = FALSE,
                   !.autoMixer.mixingFromDeck = noDeck,
                   !.autoMixer.mixingToDeck = noDeck]

cancelMix(w) ==
    LET am == w.autoMixer
        w1 == IF am.fadeTimer # 0
              THEN [clearTimer(w, am.fadeTimer) EXCEPT !.autoMixer.fadeTimer = 0]
              ELSE w
        w2 == IF am.tempoResetTimer # 0
              THEN [clearTimer(w1, am.tempoResetTimer) EXCEPT !.autoMixer.tempoResetTimer = 0]
              ELSE w1
        w3 == IF am.mixingFromDeck # noDeck
              THEN setVolume(w2, am.mixingFromDeck, am.originalVolumes[am.mixingFromDeck])
              ELSE w2
        w4 == IF am.mixingToDeck # noDeck
              THEN setVolume(w3, am.mixingToDeck, am.originalVolumes[am.mixingToDeck])
              ELSE w3
    IN  [w4 EXCEPT !.autoMixer.isMixing = FALSE,
                   !.autoMixer.mixingFromDeck = noDeck,
                   !.autoMixer.mixingToDeck = noDeck]

setEnabled(w, enabled) ==
    LET w1 == [w EXCEPT !.autoMixer.enabled = enabled] IN
    IF ~enabled /\ w.autoMixer.isMixing THEN cancelMix(w1) ELSE w1

-----------------------------------------------------------------------------
(* AudioEngine: the position loop, one animation frame.  positionUpdate is *)
(* delivered synchronously to AutoMixer.checkPosition.                     *)

positionLoopDeck(w, d) ==
    LET deck == w.decks[d] IN
    IF IsActive(deck)
    THEN LET position == getPosition(w, d)
         IN  checkPosition(Emit(w, Event("positionUpdate", d, <<position, deck.duration>>)),
                           d, position, deck.duration)
    ELSE w

positionLoop(w) == positionLoopDeck(positionLoopDeck(w, DeckOrder[1]), DeckOrder[2])


-----------------------------------------------------------------------------
(* History variables, read by the properties only:                         *)
(*   preMixVolumes  both decks' volumes just before the latest mix started *)
(*   graceOwed      for each pending restore timer of completeMix, the     *)
(*                  volume its outgoing deck had when that mix started     *)
(*   resetOwed      for a deck that was the incoming deck of a completed   *)
(*                  mix, the tempo it had at completion, until another     *)
(*                  tempo input or a cancellation reaches the deck         *)
(*   mixLog         the autoMixStart and autoMixComplete notifications     *)
(*                  emitted so far, in order, each with its two decks      *)

IsMixEvent(e) == e.name \in {"autoMixStart", "autoMixComplete"}

HasEvent(w, name, d) == \E i \in 1..Len(w.emitted) :
                            w.emitted[i].name = name /\ w.emitted[i].deck = d

MixStarted(w) == ~autoMixer.isMixing /\ w.autoMixer.isMixing

History(w, kind) ==
    /\ preMixVolumes' = IF MixStarted(w) THEN [d \in DeckIds |-> decks[d].volume]
                        ELSE preMixVolumes
    /\ graceOwed' = {g \in graceOwed : \E t \in w.timers : t.id = g.id}
                    \cup {[id |-> t.id, volume |-> preMixVolumes[t.deck]] :
                            t \in {u \in w.timers \ timers : u.kind = "grace"}}
    /\ resetOwed' = [d \in DeckIds |->
          IF HasEvent(w, "autoMixComplete", OtherDeck(d)) THEN decks[d].tempo
          ELSE IF kind # "reset"
                  /\ \/ HasEvent(w, "tempoChange", d)
                     \/ \E t \in timers \ w.timers : t.kind = "reset" /\ t.deck = d
               THEN null
          ELSE resetOwed[d]]
    /\ mixLog' = mixLog \o SelectSeq(w.emitted, IsMixEvent)

Commit(w, kind) ==
    /\ decks' = w.decks
    /\ crossfaderPosition' = w.crossfaderPosition
    /\ autoMixer' = w.autoMixer
    /\ timers' = w.timers
    /\ nextTimerId' = w.nextTimerId
    /\ History(w, kind)
    /\ UNCHANGED <<variant, currentTime, dateNow, detection>>

(* The model bounds how many calls of each kind a run makes: switches      *)
(* (play, pause, stop, setEnabled, goToCue, goToHotCue, clearHotCue), calls *)
(* that carry a number, store a position or set a mode (seek, setTempo,     *)
(* adjustTempo, sync, setVolume, setEQ, setPitch, setCrossfader,            *)
(* setPreservesPitch, setCuePoint, setHotCue), and loads.                   *)
UserOp(w) ==
    /\ transports < MaxTransports
    /\ transports' = transports + 1
    /\ Commit(w, "user")
    /\ UNCHANGED <<userOps, loads, mixes, loading>>

UserInput(w) ==
    /\ userOps < MaxUserOps
    /\ userOps' = userOps + 1
    /\ Commit(w, "user")
    /\ UNCHANGED <<transports, loads, mixes, loading>>

Callback(w, kind) ==
    /\ Commit(w, kind)
    /\ UNCHANGED <<userOps, transports, loads, mixes, loading>>

-----------------------------------------------------------------------------
(* Actions: calls from the UI / MIDI / keyboard collaborators *)

Play(d) == UserOp(play(World, d))

Pause(d) == UserOp(pause(World, d))

Stop(d) == UserOp(stop(World, d))

Seek(d) == \E p \in SeekInputs : UserInput(seek(World, d, p))

SetTempo(d) == \E r \in TempoInputs : UserInput(setTempo(World, d, r))

SetVolume(d) == \E v \in VolumeInputs : UserInput(setVolume(World, d, v))

SetCuePoint(d) == UserInput(setCuePoint(World, d))

SetHotCue(d) == \E i \in HotCueInputs : UserInput(setHotCue(World, d, i))

GoToCue(d) == UserOp(goToCue(World, d))

GoToHotCue(d) == \E i \in HotCueInputs : UserOp(goToHotCue(World, d, i))

ClearHotCue(d) == \E i \in HotCueInputs : UserOp(clearHotCue(World, d, i))

AdjustTempo(d) == \E delta \in RangeInputs : UserInput(adjustTempo(World, d, delta))

SetEQ(d) == \E band \in EqBands, v \in RangeInputs : UserInput(setEQ(World, d, band, v))

SetPitch(d) == \E v \in RangeInputs : UserInput(setPitch(World, d, v))

SetCrossfader == \E v \in RangeInputs : UserInput(setCrossfader(World, v))

SetPreservesPitch(d) == \E b \in BOOLEAN : UserInput(setPreservesPitch(World, d, b))

Sync(d) == UserInput(sync(World, d))

SetEnabled == \E b \in BOOLEAN : UserOp(setEnabled(World, b))

LoadTrack(d) ==
    \E t \in Tracks :
        /\ loads < MaxLoads
        /\ loads' = loads + 1
        /\ Commit(loadTrackBegin(World, d), "user")
        /\ loading' = [loading EXCEPT ![d] = Append(@, t)]
        /\ UNCHANGED <<userOps, transports, mixes>>

(* Actions: continuations, timers, the audio subsystem and the clocks *)

(* the decodes of the calls in flight finish in any order *)
RemoveAt(s, i) == SubSeq(s, 1, i - 1) \o SubSeq(s, i + 1, Len(s))

LoadTrackResume(d) ==
    \E i \in DOMAIN loading[d] :
        /\ Commit(loadTrackResume(World, d, loading[d][i]), "load")
        /\ loading' = [loading EXCEPT ![d] = RemoveAt(@, i)]
        /\ UNCHANGED <<userOps, transports, loads, mixes>>

(* the model bounds how many mixes a run starts *)
PositionLoop ==
    LET w == positionLoop(World) IN
    /\ MixStarted(w) => mixes < MaxMixes
    /\ mixes' = IF MixStarted(w) THEN mixes + 1 ELSE mixes
    /\ Commit(w, "loop")
    /\ UNCHANGED <<userOps, transports, loads, loading>>

FadeTick == \E t \in timers : t.kind = "fade" /\ Callback(performFade(World), "fade")

GraceTimeout ==
    \E t \in timers :
        /\ t.kind = "grace"
        /\ Callback(restoreOutgoingVolume(clearTimer(World, t.id), t), "grace")

ResetTimeout(d) ==
    \E t \in timers :
        /\ t.kind = "reset"
        /\ t.deck = d
        /\ Callback(resetStep(clearTimer(World, t.id), t), "reset")

SourceEnded(d) ==
    /\ decks[d].source = "playing"
    /\ RLe(TrackDuration(decks[d].sourceBuffer), SourcePosition(World, d))
    /\ Callback(onended(World, d), "ended")

(* the event loop delivers the ended event of a source that was stopped *)
StaleEnded(d) ==
    /\ decks[d].endedQueued
    /\ Callback(onendedStopped(World, d), "ended")

Advance ==
    \E dt \in TimeSteps :
        /\ RLe(RAdd(currentTime, dt), R(MaxTime))
        /\ currentTime' = RAdd(currentTime, dt)
        /\ dateNow' = dateNow + ((dt[1] * 1000) \div dt[2])
        /\ UNCHANGED <<variant, decks, crossfaderPosition, autoMixer, timers,
                       nextTimerId, loading, userOps, transports, loads,
                       mixes, preMixVolumes, graceOwed,
                       resetOwed, detection, mixLog>>

-----------------------------------------------------------------------------

Init ==
    /\ variant \in Variants
    /\ currentTime = R(0)
    /\ dateNow = 0
    /\ decks = [d \in DeckIds |-> createDeckState(d)]
    /\ crossfaderPosition = Rat(1, 2)
    /\ autoMixer = createAutoMixer
    /\ timers = {}
    /\ nextTimerId = 1
    /\ loading = [d \in DeckIds |-> <<>>]
    /\ userOps = 0
    /\ transports = 0
    /\ loads = 0
    /\ mixes = 0
    /\ preMixVolumes = [d \in DeckIds |-> R(1)]
    /\ graceOwed = {}
    /\ resetOwed = [d \in DeckIds |-> null]
    /\ detection = noDetection
    /\ mixLog = <<>>

Next ==
    \/ \E d \in DeckIds : Play(d)
    \/ \E d \in DeckIds : Pause(d)
    \/ \E d \in DeckIds : Stop(d)
    \/ \E d \in DeckIds : Seek(d)
    \/ \E d \in DeckIds : SetTempo(d)
    \/ \E d \in DeckIds : SetVolume(d)
    \/ \E d \in DeckIds : SetCuePoint(d)
    \/ \E d \in DeckIds : SetHotCue(d)
    \/ \E d \in DeckIds : GoToCue(d)
    \/ \E d \in DeckIds : GoToHotCue(d)
    \/ \E d \in DeckIds : ClearHotCue(d)
    \/ \E d \in DeckIds : AdjustTempo(d)
    \/ \E d \in DeckIds : SetEQ(d)
    \/ \E d \in DeckIds : SetPitch(d)
    \/ SetCrossfader
    \/ \E d \in DeckIds : SetPreservesPitch(d)
    \/ \E d \in DeckIds : Sync(d)
    \/ \E d \in DeckIds : LoadTrack(d)
    \/ \E d \in DeckIds : LoadTrackResume(d)
    \/ \E d \in DeckIds : SourceEnded(d)
    \/ \E d \in DeckIds : StaleEnded(d)
    \/ SetEnabled
    \/ PositionLoop
    \/ FadeTick
    \/ GraceTimeout
    \/ \E d \in DeckIds : ResetTimeout(d)
    \/ Advance

Spec == Init /\ [][Next]_vars


(* Both decks hold a loaded track (each load has run to its trackLoaded);   *)
(* nothing else has been called yet.  u and m are the numbers of calls that *)
(* carry a number and of mixes the run has already used up.                 *)
InitLoaded(u, m) ==
    /\ variant \in Variants
    /\ currentTime = R(0)
    /\ dateNow = 0
    /\ \E ta \in Tracks, tb \in Tracks :
          decks = loadTrackResume(loadTrackResume(constructor(variant), "A", ta),
                                  "B", tb).decks
    /\ crossfaderPosition = Rat(1, 2)
    /\ autoMixer = createAutoMixer
    /\ timers = {}
    /\ nextTimerId = 1
    /\ loading = [d \in DeckIds |-> <<>>]
    /\ userOps = u
    /\ transports = 0
    /\ loads = MaxLoads
    /\ mixes = m
    /\ preMixVolumes = [d \in DeckIds |-> R(1)]
    /\ graceOwed = {}
    /\ resetOwed = [d \in DeckIds |-> null]
    /\ detection = noDetection
    /\ mixLog = <<>>

(* one mix, with calls that carry a number *)
InitMix == InitLoaded(0, MaxMixes - 1)

NextMix ==
    \/ \E d \in DeckIds : Play(d)
    \/ \E d \in DeckIds : Pause(d)
    \/ \E d \in DeckIds : Stop(d)
    \/ \E d \in DeckIds : Seek(d)
    \/ \E d \in DeckIds : SetTempo(d)
    \/ \E d \in DeckIds : SetVolume(d)
    \/ \E d \in DeckIds : SourceEnded(d)
    \/ \E d \in DeckIds : StaleEnded(d)
    \/ SetEnabled
    \/ PositionLoop
    \/ FadeTick
    \/ GraceTimeout
    \/ \E d \in DeckIds : ResetTimeout(d)
    \/ Advance

SpecMix == InitMix /\ [][NextMix]_vars

(* two mixes in a row, without calls that carry a number *)
InitRemix == InitLoaded(MaxUserOps, 0)

NextRemix ==
    \/ \E d \in DeckIds : Play(d)
    \/ \E d \in DeckIds : Pause(d)
    \/ \E d \in DeckIds : Stop(d)
    \/ \E d \in DeckIds : SourceEnded(d)
    \/ \E d \in DeckIds : StaleEnded(d)
    \/ SetEnabled
    \/ PositionLoop
    \/ FadeTick
    \/ GraceTimeout
    \/ \E d \in DeckIds : ResetTimeout(d)
    \/ Advance

SpecRemix == InitRemix /\ [][NextRemix]_vars

(* One mix and no other tempo input.  The event loop eventually runs a      *)
(* pending step of a tempo-reset chain: weak fairness of ResetTimeout(d),   *)
(* written out with ResetPending(d), which is what ENABLED of that step     *)
(* amounts to (a reset step always removes the timer that fired).           *)
InitReset == InitLoaded(MaxUserOps, MaxMixes - 1)

ResetPending(d) == \E t \in timers : t.kind = "reset" /\ t.deck = d

ResetFair(d) == []<>(~ResetPending(d)) \/ []<><<ResetTimeout(d)>>_vars

SpecReset ==
    /\ InitReset
    /\ [][NextRemix]_vars
    /\ ResetFair("A")
    /\ ResetFair("B")


(* One mix and one call that carries a number, with every writer of a      *)
(* tempo, a volume, an EQ band, a pitch or the crossfader                  *)
InitRange == InitLoaded(0, MaxMixes - 1)

NextRange ==
    \/ \E d \in DeckIds : Play(d)
    \/ \E d \in DeckIds : SetTempo(d)
    \/ \E d \in DeckIds : AdjustTempo(d)
    \/ \E d \in DeckIds : SetVolume(d)
    \/ \E d \in DeckIds : SetEQ(d)
    \/ \E d \in DeckIds : SetPitch(d)
    \/ SetCrossfader
    \/ \E d \in DeckIds : SetPreservesPitch(d)
    \/ \E d \in DeckIds : Sync(d)
    \/ \E d \in DeckIds : SourceEnded(d)
    \/ \E d \in DeckIds : StaleEnded(d)
    \/ SetEnabled
    \/ PositionLoop
    \/ FadeTick
    \/ GraceTimeout
    \/ \E d \in DeckIds : ResetTimeout(d)
    \/ Advance

SpecRange == InitRange /\ [][NextRange]_vars

(* The engine alone: the AutoMixer is never switched on *)
NextDeck ==
    \/ \E d \in DeckIds : Play(d)
    \/ \E d \in DeckIds : Pause(d)
    \/ \E d \in DeckIds : Stop(d)
    \/ \E d \in DeckIds : Seek(d)
    \/ \E d \in DeckIds : SetTempo(d)
    \/ \E d \in DeckIds : SetVolume(d)
    \/ \E d \in DeckIds : SetCuePoint(d)
    \/ \E d \in DeckIds : SetHotCue(d)
    \/ \E d \in DeckIds : Sync(d)
    \/ \E d \in DeckIds : LoadTrack(d)
    \/ \E d \in DeckIds : LoadTrackResume(d)
    \/ \E d \in DeckIds : SourceEnded(d)
    \/ \E d \in DeckIds : StaleEnded(d)
    \/ Advance

SpecDeck == Init /\ [][NextDeck]_vars

(* The engine alone, with its cue point and hot cues *)
NextCue ==
    \/ \E d \in DeckIds : Play(d)
    \/ \E d \in DeckIds : Pause(d)
    \/ \E d \in DeckIds : Stop(d)
    \/ \E d \in DeckIds : SetCuePoint(d)
    \/ \E d \in DeckIds : SetHotCue(d)
    \/ \E d \in DeckIds : GoToCue(d)
    \/ \E d \in DeckIds : GoToHotCue(d)
    \/ \E d \in DeckIds : ClearHotCue(d)
    \/ \E d \in DeckIds : LoadTrack(d)
    \/ \E d \in DeckIds : LoadTrackResume(d)
    \/ \E d \in DeckIds : SourceEnded(d)
    \/ \E d \in DeckIds : StaleEnded(d)
    \/ Advance

SpecCue == Init /\ [][NextCue]_vars

(* the detector alone: one buffer, one call of detect *)
Detect ==
    /\ detection.promise = "pending"
    /\ detection' = detect(detection.audioBuffer)
    /\ UNCHANGED <<variant, currentTime, dateNow, decks, crossfaderPosition,
                   autoMixer, timers, nextTimerId, loading, userOps, transports,
                   loads, mixes, preMixVolumes, graceOwed, resetOwed, mixLog>>

InitBpm ==
    /\ variant \in Variants
    /\ currentTime = R(0)
    /\ dateNow = 0
    /\ decks = [d \in DeckIds |-> createDeckState(d)]
    /\ crossfaderPosition = Rat(1, 2)
    /\ autoMixer = createAutoMixer
    /\ timers = {}
    /\ nextTimerId = 1
    /\ loading = [d \in DeckIds |-> <<>>]
    /\ userOps = 0
    /\ transports = 0
    /\ loads = 0
    /\ mixes = 0
    /\ preMixVolumes = [d \in DeckIds |-> R(1)]
    /\ graceOwed = {}
    /\ resetOwed = [d \in DeckIds |-> null]
    /\ \E b \in BpmBuffers :
          detection = [audioBuffer |-> b, promise |-> "pending", value |-> null]
    /\ mixLog = <<>>

NextBpm == Detect

SpecBpm == InitBpm /\ [][NextBpm]_vars

(* the faders alone: the crossfader and the two volume faders are moved    *)
(* over their whole travel, in steps of 1/FaderSteps and 1/VolumeSteps     *)
FaderSteps == 20
VolumeSteps == 4

MoveCrossfader ==
    \E k \in 0..FaderSteps : Callback(setCrossfader(World, Rat(k, FaderSteps)), "user")

MoveVolume(d) ==
    \E k \in 0..VolumeSteps : Callback(setVolume(World, d, Rat(k, VolumeSteps)), "user")

NextFader ==
    \/ MoveCrossfader
    \/ \E d \in DeckIds : MoveVolume(d)

SpecFader == Init /\ [][NextFader]_vars

(* One mix, with the clocks running on until its fade time is over, and    *)
(* with the scheduling the runtime gives: a pending interval timer keeps   *)
(* firing, and time passes.                                                *)
FadeRunning ==
    /\ autoMixer.isMixing
    /\ dateNow - autoMixer.fadeStartTime < fadeTime * 1000

ClockRuns(dt) == RLe(RAdd(currentTime, dt), R(MaxTime)) \/ FadeRunning

AdvanceFade ==
    \E dt \in TimeSteps :
        /\ ClockRuns(dt)
        /\ currentTime' = RAdd(currentTime, dt)
        /\ dateNow' = dateNow + ((dt[1] * 1000) \div dt[2])
        /\ UNCHANGED <<variant, decks, crossfaderPosition, autoMixer, timers,
                       nextTimerId, loading, userOps, transports, loads,
                       mixes, preMixVolumes, graceOwed,
                       resetOwed, detection, mixLog>>

NextFade ==
    \/ \E d \in DeckIds : Play(d)
    \/ \E d \in DeckIds : Pause(d)
    \/ \E d \in DeckIds : Stop(d)
    \/ \E d \in DeckIds : SourceEnded(d)
    \/ \E d \in DeckIds : StaleEnded(d)
    \/ SetEnabled
    \/ PositionLoop
    \/ FadeTick
    \/ GraceTimeout
    \/ \E d \in DeckIds : ResetTimeout(d)
    \/ AdvanceFade

FadePending == \E t \in timers : t.kind = "fade"

(* a fade tick would change the state: weak fairness asks for no tick that *)
(* would only repeat the volumes already set                               *)
FadeTickChanges ==
    /\ FadePending
    /\ \E w \in {performFade(World)} :
           <<w.decks, w.autoMixer, w.timers>> # <<decks, autoMixer, timers>>

FadeFair == []<>(~FadeTickChanges) \/ []<><<FadeTick>>_vars

ClockFair == []<>(\A dt \in TimeSteps : ~ClockRuns(dt)) \/ []<><<AdvanceFade>>_vars

SpecFade ==
    /\ InitReset
    /\ [][NextFade]_vars
    /\ FadeFair
    /\ ClockFair

(* Loads over a loaded deck, failing ones included.  Deck A holds the 30 s  *)
(* track, was sought to 21 s, and its cue point and first hot cue were set  *)
(* there; deck B is empty.  Files are then loaded on either deck.           *)
LoadInputs == {"t10", ShortTrack, CorruptFile}

LoadFile(d) ==
    \E t \in LoadInputs :
        /\ loads < MaxLoads
        /\ loads' = loads + 1
        /\ Commit(loadTrackBegin(World, d), "user")
        /\ loading' = [loading EXCEPT ![d] = Append(@, t)]
        /\ UNCHANGED <<userOps, transports, mixes>>

InitLoad ==
    /\ variant \in Variants
    /\ currentTime = R(0)
    /\ dateNow = 0
    /\ decks = setHotCue(setCuePoint(seek(loadTrackResume(constructor(variant),
                                                          "A", "t30"),
                                          "A", R(21)),
                                     "A"),
                         "A", 1).decks
    /\ crossfaderPosition = Rat(1, 2)
    /\ autoMixer = createAutoMixer
    /\ timers = {}
    /\ nextTimerId = 1
    /\ loading = [d \in DeckIds |-> <<>>]
    /\ userOps = 0
    /\ transports = 0
    /\ loads = 0
    /\ mixes = 0
    /\ preMixVolumes = [d \in DeckIds |-> R(1)]
    /\ graceOwed = {}
    /\ resetOwed = [d \in DeckIds |-> null]
    /\ detection = noDetection
    /\ mixLog = <<>>

NextLoad ==
    \/ \E d \in DeckIds : Play(d)
    \/ \E d \in DeckIds : Pause(d)
    \/ \E d \in DeckIds : Stop(d)
    \/ \E d \in DeckIds : Seek(d)
    \/ \E d \in DeckIds : SetCuePoint(d)
    \/ \E d \in DeckIds : SetHotCue(d)
    \/ \E d \in DeckIds : LoadFile(d)
    \/ \E d \in DeckIds : LoadTrackResume(d)
    \/ \E d \in DeckIds : SourceEnded(d)
    \/ \E d \in DeckIds : StaleEnded(d)
    \/ Advance

SpecLoad == InitLoad /\ [][NextLoad]_vars

-----------------------------------------------------------------------------
(* Shorthands of the properties *)

Stopped(deck) == ~deck.isPlaying /\ ~deck.isPaused

Clamped(x, lo, hi) == IF RLt(x, lo) THEN lo ELSE IF RLt(hi, x) THEN hi ELSE x

TempoProbes == {Rat(1, 4), Rat(1, 2), Rat(4, 5), R(1), Rat(201, 200), Rat(5, 4), Rat(3, 2), R(2)}

(* C1: for a Playing deck, at every clock value and for every requested     *)
(* ratio, setTempo leaves getPosition unchanged at the instant of the call  *)
(* and stores the ratio clamped to [0.5, 1.5], in both engine variants.     *)
C1_SetTempoKeepsPosition ==
    \A d \in DeckIds : \A r \in TempoProbes :
        IsActive(decks[d]) =>
            LET w == setTempo(World, d, r) IN
            /\ getPosition(w, d) = getPosition(World, d)
            /\ w.decks[d].tempo = Clamped(r, Rat(1, 2), Rat(3, 2))

(* a Playing deck, away from 0 and from the end, at a tempo other than 1,   *)
(* some time after it was started                                           *)
C1_Witness ==
    \E d \in DeckIds :
        /\ IsActive(decks[d])
        /\ decks[d].tempo # R(1)
        /\ RLt(R(0), getPosition(World, d))
        /\ RLt(getPosition(World, d), decks[d].duration)
        /\ RLt(R(0), currentTime)

(* C2: when loadTrack completes on a deck (trackLoaded), the deck is        *)
(* Stopped at position 0 with cuePoint 0 and no hot cue, whatever was       *)
(* called on the deck while the load was waiting.                           *)
C2_LoadCompletesStoppedAtZero ==
    [][\A d \in DeckIds :
         LoadTrackResume(d) =>
            /\ Stopped(decks'[d])
            /\ getPosition(World, d)' = R(0)
            /\ decks'[d].cuePoint = R(0)
            /\ \A i \in 1..HotCueSlots : decks'[d].hotCues[i] = null]_vars


(* C3: setEnabled(false) called while a mix is in progress leaves both      *)
(* decks' volumes equal to the volumes they had just before that mix        *)
(* started, leaves the mixer not mixing, and leaves the incoming deck       *)
(* Playing.                                                                 *)
C3_DisableDuringMixRestores ==
    autoMixer.isMixing =>
        LET w == setEnabled(World, FALSE)
            toDeck == autoMixer.mixingToDeck
        IN  /\ \A d \in DeckIds : w.decks[d].volume = preMixVolumes[d]
            /\ ~w.autoMixer.isMixing
            /\ ~w.autoMixer.enabled
            /\ w.decks[toDeck].isPlaying = decks[toDeck].isPlaying
            /\ w.decks[toDeck].isPaused = decks[toDeck].isPaused
            /\ w.decks[toDeck].source = decks[toDeck].source
            /\ ~\E t \in w.timers : t.kind = "fade"

(* the one mix of the run was cancelled part-way (no completion ever        *)
(* scheduled a restore), a deck that entered it at volume 1/2 is back at    *)
(* 1/2, and both decks play on                                              *)
C3_Witness ==
    /\ ~autoMixer.enabled
    /\ ~autoMixer.isMixing
    /\ nextTimerId = 2
    /\ timers = {}
    /\ dateNow > autoMixer.fadeStartTime
    /\ \A d \in DeckIds : IsActive(decks[d]) /\ decks[d].volume = preMixVolumes[d]
    /\ \E d \in DeckIds : decks[d].volume = Rat(1, 2)

(* C4: once setEnabled(false) has returned, no timer callback of the mixer  *)
(* (a fade tick or a tempo-reset step) changes any deck's volume or tempo,  *)
(* whether the mixer was disabled during the fade or after it.              *)
C4_NoTimerEffectAfterDisable ==
    [][(~autoMixer.enabled /\ (FadeTick \/ \E d \in DeckIds : ResetTimeout(d))) =>
          \A d \in DeckIds : /\ decks'[d].volume = decks[d].volume
                             /\ decks'[d].tempo = decks[d].tempo]_vars

(* C5: when the restore timer of a completed mix fires, the outgoing deck's *)
(* volume becomes the volume that deck had when that mix started, also when *)
(* a tick has started the opposite mix in between.                          *)
C5_GraceRestoresOutgoingVolume ==
    [][\A t \in timers :
         (t.kind = "grace" /\ GraceTimeout /\ t \notin timers') =>
            \E g \in graceOwed : g.id = t.id /\ decks'[t.deck].volume = g.volume]_vars

(* the conditions of checkPosition as the specification words them *)
InWindow(w, d) ==
    LET remaining == RSub(w.decks[d].duration, getPosition(w, d)) IN
    RLt(R(0), remaining) /\ RLe(remaining, R(fadeTime))

Trigger(w, d) ==
    /\ w.autoMixer.enabled
    /\ ~w.autoMixer.isMixing
    /\ w.decks[d].isPlaying /\ ~w.decks[d].isPaused
    /\ InWindow(w, d)
    /\ w.decks[OtherDeck(d)].audioBuffer # noBuffer
    /\ ~(w.decks[OtherDeck(d)].isPlaying /\ ~w.decks[OtherDeck(d)].isPaused)

StartedBy(wa, wb, d) ==
    /\ ~wa.autoMixer.isMixing
    /\ wb.autoMixer.isMixing
    /\ wb.autoMixer.mixingFromDeck = d
    /\ wb.autoMixer.mixingToDeck = OtherDeck(d)
    /\ HasEvent(wb, "autoMixStart", d)

(* C6: while a mix is in progress, a position tick that would otherwise     *)
(* trigger a mix leaves the session unchanged, creates no second fade timer *)
(* and emits no autoMixStart.                                               *)
C6_NoMixWhileMixing ==
    autoMixer.isMixing =>
        LET w == positionLoop(World) IN
        /\ w.autoMixer = autoMixer
        /\ w.timers = timers
        /\ w.nextTimerId = nextTimerId
        /\ w.decks = decks
        /\ \A d \in DeckIds : ~HasEvent(w, "autoMixStart", d)

(* a mix is in progress and a deck is Playing inside its window while the   *)
(* other deck is loaded and not Playing                                     *)
C6_Witness ==
    /\ autoMixer.isMixing
    /\ \E t \in timers : t.kind = "fade"
    /\ \E d \in DeckIds :
          /\ IsActive(decks[d])
          /\ InWindow(World, d)
          /\ decks[OtherDeck(d)].audioBuffer # noBuffer
          /\ ~IsActive(decks[OtherDeck(d)])

Scenario(p) ==
    /\ fadeTime = 10
    /\ autoMixer.enabled /\ ~autoMixer.isMixing
    /\ IsActive(decks["A"])
    /\ decks["A"].duration = R(30)
    /\ getPosition(World, "A") = p
    /\ decks["B"].audioBuffer # noBuffer
    /\ Stopped(decks["B"])

MixFromAStarted == StartedBy(World, positionLoopDeck(World, "A"), "A")

(* C8: in that scenario a tick at position 21 s starts no mix, and a tick   *)
(* at 20.5 s starts a mix.                                                  *)
C8_Original ==
    /\ Scenario(R(21)) => ~MixFromAStarted
    /\ Scenario(Rat(41, 2)) => MixFromAStarted

(* C8 amended: a tick at position 21 s starts a mix from A to B (9 s are    *)
(* left, which is within the 10 s window), and so does a tick at 20.5 s.    *)
C8_Amended ==
    \A p \in {R(21), Rat(41, 2)} :
        Scenario(p) =>
            /\ MixFromAStarted
            /\ positionLoop(World).autoMixer.mixingFromDeck = "A"
            /\ positionLoop(World).autoMixer.mixingToDeck = "B"
            /\ IsActive(positionLoop(World).decks["B"])

(* a mix from A to B has just started with A at 21 s of 30 s                *)
C8_Witness ==
    /\ autoMixer.isMixing
    /\ autoMixer.mixingFromDeck = "A"
    /\ dateNow = autoMixer.fadeStartTime
    /\ decks["A"].duration = R(30)
    /\ getPosition(World, "A") = R(21)
    /\ IsActive(decks["B"])

(* C9: when a mix completes, the outgoing deck is at volume 0 and Stopped,  *)
(* the incoming deck is at the volume it had before the mix, the fade timer *)
(* is cleared and the mixer is not mixing.                                  *)
C9_CompletionState ==
    [][(FadeTick /\ HasEvent(performFade(World), "autoMixComplete", autoMixer.mixingFromDeck)) =>
          /\ decks'[autoMixer.mixingFromDeck].volume = R(0)
          /\ Stopped(decks'[autoMixer.mixingFromDeck])
          /\ decks'[autoMixer.mixingToDeck].volume = preMixVolumes[autoMixer.mixingToDeck]
          /\ autoMixer'.fadeTimer = 0
          /\ ~\E t \in timers' : t.kind = "fade"
          /\ ~autoMixer'.isMixing]_vars

(* a mix has completed and its restore has not run yet: the outgoing deck   *)
(* is silent and the incoming deck, which entered at volume 1/2, plays      *)
C9_Witness ==
    /\ ~autoMixer.isMixing
    /\ \E t \in timers :
          /\ t.kind = "grace"
          /\ decks[t.deck].volume = R(0)
          /\ Stopped(decks[t.deck])
          /\ decks[OtherDeck(t.deck)].volume = Rat(1, 2)
          /\ IsActive(decks[OtherDeck(t.deck)])

FarFromUnity(x) == RLe(Rat(1, 100), RAbs(RSub(x, R(1))))

ChainsBounded == \A t \in timers : t.kind = "reset" => t.currentStep < steps

NearUnityKept ==
    \A d \in DeckIds :
        (resetOwed[d] # null /\ ~FarFromUnity(resetOwed[d]) /\ ~ResetPending(d))
            => decks[d].tempo = resetOwed[d]

ResetOwedFar(d) == resetOwed[d] # null /\ FarFromUnity(resetOwed[d])

ResetSettled(d) == decks[d].tempo = R(1) \/ resetOwed[d] = null

-----------------------------------------------------------------------------
(* Transport, cue and range properties of the engine *)

Playing(deck) == deck.isPlaying /\ ~deck.isPaused

Paused(deck) == deck.isPlaying /\ deck.isPaused

Loaded(deck) == deck.audioBuffer # noBuffer

CountEvents(w, name, d) ==
    Cardinality({i \in 1..Len(w.emitted) :
                    w.emitted[i].name = name /\ w.emitted[i].deck = d})

SourceFinishing(d) ==
    /\ decks[d].source = "playing"
    /\ RLe(TrackDuration(decks[d].sourceBuffer), SourcePosition(World, d))

(* C11: when the source of a Playing deck has played to its end, delivering *)
(* its ended event leaves the deck Stopped and emits trackEnded exactly     *)
(* once; the ended event of a source that pause, stop, seek or a pitch-mode *)
(* restart stopped never emits trackEnded; and no deck is Playing while the *)
(* source it holds has finished.                                            *)
C11_TrackEndedOncePerPlaythrough ==
    \A d \in DeckIds :
        /\ (SourceFinishing(d) /\ Playing(decks[d]))
              => LET w == onended(World, d) IN
                 /\ Stopped(w.decks[d])
                 /\ CountEvents(w, "trackEnded", d) = 1
        /\ decks[d].endedQueued
              => ~HasEvent(onendedStopped(World, d), "trackEnded", d)
        /\ decks[d].source = "finished" => ~Playing(decks[d])

SeekProbes == {R(-3), R(0), Rat(7, 2), Rat(199, 20), R(40)}

(* C12: seek never changes the transport state of a loaded deck: Playing    *)
(* stays Playing and is at the requested (clamped) position, Paused stays   *)
(* Paused, Stopped stays Stopped, in both engine variants.                  *)
C12_SeekKeepsTransportState ==
    \A d \in DeckIds : \A p \in SeekProbes :
        Loaded(decks[d]) =>
            LET w == seek(World, d, p) IN
            /\ Playing(w.decks[d]) = Playing(decks[d])
            /\ Paused(w.decks[d]) = Paused(decks[d])
            /\ Stopped(w.decks[d]) = Stopped(decks[d])
            /\ Playing(decks[d]) =>
                  getPosition(w, d) = Clamped(p, R(0), decks[d].duration)

(* C13: for a loaded deck that is Paused or Stopped and every requested     *)
(* position p, getPosition right after seek(p) is p clamped to              *)
(* [0, duration].                                                           *)
C13_SeekThenPositionAtRest ==
    \A d \in DeckIds : \A p \in SeekProbes :
        (Loaded(decks[d]) /\ ~Playing(decks[d])) =>
            getPosition(seek(World, d, p), d) = Clamped(p, R(0), decks[d].duration)

(* a deck that was never played holds a track shorter than 20.5 s and a     *)
(* seek beyond its end has left it at its duration                          *)
C13_Witness ==
    \E d \in DeckIds :
        /\ Loaded(decks[d])
        /\ transports = 0
        /\ userOps = 1
        /\ Stopped(decks[d])
        /\ RLt(decks[d].duration, Rat(41, 2))
        /\ getPosition(World, d) = decks[d].duration

HotCueProbes == 0..9

SameDeck(w, d) ==
    /\ w.decks[d].isPlaying = decks[d].isPlaying
    /\ w.decks[d].isPaused = decks[d].isPaused
    /\ getPosition(w, d) = getPosition(World, d)
    /\ w.decks[d].cuePoint = decks[d].cuePoint
    /\ w.decks[d].hotCues = decks[d].hotCues

(* C14: on a deck that never had a track loaded, play, pause, stop, seek,   *)
(* setCuePoint, goToCue, setHotCue, goToHotCue and clearHotCue leave the    *)
(* transport state, the position, the cue point and the hot-cue table as    *)
(* they were.                                                               *)
C14_EmptyDeckCallsAreNoOps ==
    \A d \in DeckIds :
        ~Loaded(decks[d]) =>
            /\ SameDeck(play(World, d), d)
            /\ SameDeck(pause(World, d), d)
            /\ SameDeck(stop(World, d), d)
            /\ \A p \in SeekProbes : SameDeck(seek(World, d, p), d)
            /\ SameDeck(setCuePoint(World, d), d)
            /\ SameDeck(goToCue(World, d), d)
            /\ \A i \in HotCueProbes :
                  /\ SameDeck(setHotCue(World, d, i), d)
                  /\ SameDeck(goToHotCue(World, d, i), d)
                  /\ SameDeck(clearHotCue(World, d, i), d)

HotCueButtons == 8

(* the position a hot-cue table holds for an index; unset outside the table *)
Slot(h, i) == IF i \in DOMAIN h THEN h[i] ELSE null

(* C15: for every index i in 1..8, setHotCue(i) on a loaded deck stores the *)
(* current position in slot i and changes no other slot, and clearHotCue(i) *)
(* unsets slot i and changes no other slot.                                 *)
C15_EightHotCueSlots ==
    \A d \in DeckIds : \A i \in 1..HotCueButtons :
        Loaded(decks[d]) =>
            LET set == setHotCue(World, d, i).decks[d].hotCues
                cleared == clearHotCue(World, d, i).decks[d].hotCues
            IN  /\ Slot(set, i) = getPosition(World, d)
                /\ Slot(cleared, i) = null
                /\ \A j \in (1..HotCueButtons) \ {i} :
                      /\ Slot(set, j) = Slot(decks[d].hotCues, j)
                      /\ Slot(cleared, j) = Slot(decks[d].hotCues, j)

SameTransportAndPosition(w, d) ==
    /\ w.decks[d].isPlaying = decks[d].isPlaying
    /\ w.decks[d].isPaused = decks[d].isPaused
    /\ getPosition(w, d) = getPosition(World, d)

GoToHotCueAsClaimed(d, i) ==
    LET w == goToHotCue(World, d, i) IN
    IF Slot(decks[d].hotCues, i) = null
    THEN /\ Slot(w.decks[d].hotCues, i) = getPosition(World, d)
         /\ SameTransportAndPosition(w, d)
    ELSE /\ getPosition(w, d) = Slot(decks[d].hotCues, i)
         /\ Playing(w.decks[d])

(* C16: goToHotCue(i) on a loaded deck, for every hot-cue index i in 1..8:  *)
(* if slot i is unset, the call stores the current position in slot i and   *)
(* changes neither the position nor the transport state; if slot i is set,  *)
(* the position becomes the stored value and the deck is Playing after the  *)
(* call, whatever its state was.                                            *)
C16_GoToHotCue ==
    \A d \in DeckIds : \A i \in 1..HotCueButtons :
        Loaded(decks[d]) => GoToHotCueAsClaimed(d, i)

(* C17: a deck becomes Paused only in a step that is pause() on that deck   *)
(* while it is Playing; pause() on a deck that is Stopped or already Paused *)
(* changes nothing and emits no notification.                               *)
C17_PausedOnlyFromPlaying ==
    /\ [](\A d \in DeckIds : ~Playing(decks[d]) => pause(World, d) = World)
    /\ [][\A d \in DeckIds :
            (~Paused(decks[d]) /\ Paused(decks'[d]))
                => /\ Playing(decks[d])
                   /\ decks' = pause(World, d).decks
                   /\ HasEvent(pause(World, d), "pause", d)]_vars

(* a Playing deck has been paused *)
C17_Witness == \E d \in DeckIds : Paused(decks[d])

(* C18: play() on a Playing deck changes no state and emits nothing; play() *)
(* on a loaded deck that is Stopped or Paused makes it Playing, emits play  *)
(* exactly once, and getPosition right after the call equals the resting    *)
(* position before it.                                                      *)
C18_PlayFromRestKeepsPosition ==
    \A d \in DeckIds :
        LET w == play(World, d) IN
        /\ Playing(decks[d]) => w = World
        /\ (Loaded(decks[d]) /\ ~Playing(decks[d]))
              => /\ Playing(w.decks[d])
                 /\ CountEvents(w, "play", d) = 1
                 /\ getPosition(w, d) = getPosition(World, d)

(* a deck that was paused away from position 0 has been resumed by play()   *)
(* (no seek was made)                                                       *)
C18_Witness ==
    \E d \in DeckIds :
        /\ variant = "knob"
        /\ userOps = 0
        /\ Playing(decks[d])
        /\ decks[d].startTime = currentTime
        /\ RLt(R(0), decks[d].startOffset)

(* C19: after stop(), whether the deck was Stopped, Playing or Paused, the  *)
(* deck is Stopped and getPosition returns the deck's cue point.            *)
C19_StopReturnsToCue ==
    \A d \in DeckIds :
        LET w == stop(World, d) IN
        /\ Stopped(w.decks[d])
        /\ getPosition(w, d) = w.decks[d].cuePoint
        /\ w.decks[d].cuePoint = decks[d].cuePoint

(* a deck whose cue point was set away from 0 has been stopped and rests at *)
(* the cue point                                                            *)
C19_Witness ==
    \E d \in DeckIds :
        /\ Loaded(decks[d])
        /\ Stopped(decks[d])
        /\ RLt(R(0), decks[d].cuePoint)
        /\ getPosition(World, d) = decks[d].cuePoint

RangeProbes == {R(-20), Rat(-1, 100), Rat(1, 100), R(20)}

Within(x, lo, hi) == RLe(lo, x) /\ RLe(x, hi)

InRange(w) ==
    /\ Within(w.crossfaderPosition, R(0), R(1))
    /\ \A d \in DeckIds :
          /\ Within(w.decks[d].tempo, Rat(1, 2), Rat(3, 2))
          /\ Within(w.decks[d].volume, R(0), R(1))
          /\ Within(w.decks[d].eqLowValue, R(-12), R(12))
          /\ Within(w.decks[d].eqMidValue, R(-12), R(12))
          /\ Within(w.decks[d].eqHighValue, R(-12), R(12))
          /\ Within(w.decks[d].pitchSemitones, R(-12), R(12))

SameEqAndPitch(w, d) ==
    /\ w.decks[d].eqLowValue = decks[d].eqLowValue
    /\ w.decks[d].eqMidValue = decks[d].eqMidValue
    /\ w.decks[d].eqHighValue = decks[d].eqHighValue
    /\ w.decks[d].pitchSemitones = decks[d].pitchSemitones

SameRanged(w, d) ==
    /\ w.decks[d].tempo = decks[d].tempo
    /\ w.decks[d].volume = decks[d].volume
    /\ SameEqAndPitch(w, d)

(* of the ranged values, w differs from the current state at most in the   *)
(* tempo (the volume) of deck d, and that one is in its range              *)
OnlyTempoMoved(w, d) ==
    /\ Within(w.decks[d].tempo, TempoMin, TempoMax)
    /\ w.decks[d].volume = decks[d].volume
    /\ SameEqAndPitch(w, d)
    /\ SameRanged(w, OtherDeck(d))
    /\ w.crossfaderPosition = crossfaderPosition

OnlyVolumeMoved(w, d) ==
    /\ Within(w.decks[d].volume, R(0), R(1))
    /\ w.decks[d].tempo = decks[d].tempo
    /\ SameEqAndPitch(w, d)
    /\ SameRanged(w, OtherDeck(d))
    /\ w.crossfaderPosition = crossfaderPosition

(* C20: in every reachable state every deck's tempo is in [0.5, 1.5], its   *)
(* volume in [0, 1], each EQ band and the pitch in [-12, 12], and the       *)
(* crossfader position in [0, 1]; the reachable states include those after  *)
(* setTempo, sync, setEQ, setPitch and setCrossfader calls with arguments   *)
(* outside the range, inside an auto-mix fade and inside a tempo-reset      *)
(* chain.  In each of these states one more keyboard adjustTempo or         *)
(* setVolume call, with arguments on both sides of the range, moves only    *)
(* the value it sets and leaves that one in its range.                      *)
C20_ValuesStayInRange ==
    /\ InRange(World)
    /\ \A d \in DeckIds :
          /\ \A x \in RangeProbes : OnlyTempoMoved(adjustTempo(World, d, x), d)
          /\ \A x \in RangeInputs : OnlyVolumeMoved(setVolume(World, d, x), d)

(* a keyboard tempo adjustment beyond the range has left a deck at the top  *)
(* of the tempo range while a mix has started and the other deck's tempo    *)
(* was set by its sync                                                      *)
C20_Witness ==
    \E d \in DeckIds :
        /\ userOps = 1
        /\ mixes = MaxMixes
        /\ decks[d].tempo = TempoMax
        /\ decks[OtherDeck(d)].tempo # R(1)

-----------------------------------------------------------------------------
(* Sync, output gains and the auto-mix session *)

BpmKnown(deck) == deck.bpm # R(0)

(* C21: when both decks have a non-zero BPM, sync(d) sets deck d's tempo to *)
(* other.bpm * other.tempo / d.bpm clamped to [0.5, 1.5] and leaves the     *)
(* other deck's tempo alone; when either BPM is zero it changes no state    *)
(* and emits nothing.                                                       *)
C21_SyncSetsClampedRatio ==
    \A d \in DeckIds :
        LET w == sync(World, d)
            other == decks[OtherDeck(d)]
        IN  IF BpmKnown(decks[d]) /\ BpmKnown(other)
            THEN /\ w.decks[d].tempo =
                        Clamped(RDiv(RMul(other.bpm, other.tempo), decks[d].bpm),
                                Rat(1, 2), Rat(3, 2))
                 /\ w.decks[OtherDeck(d)].tempo = other.tempo
            ELSE w = World

(* sync has moved a 96 BPM deck to 1.25 to match a 120 BPM deck *)
C21_Witness ==
    \E d \in DeckIds :
        /\ userOps = 1
        /\ decks[d].bpm = R(96)
        /\ decks[OtherDeck(d)].bpm = R(120)
        /\ decks[OtherDeck(d)].tempo = R(1)
        /\ decks[d].tempo = Rat(5, 4)

(* Utils.crossfadeGains at the positions 0, 1/2 and 1, the only ones the    *)
(* crossfader takes in the specifications of the mixer: gainA is            *)
(* cos(position * pi/2) and gainB is cos((1 - position) * pi/2), so the     *)
(* bus gain is 1, sqrt(2)/2 or 0; it is named by its class, as sqrt(2)/2   *)
(* is not a rational.                                                       *)
crossfadeGainClass(position, d) ==
    LET toOther == IF d = "A" THEN position ELSE RSub(R(1), position)
    IN  IF toOther = R(0) THEN "one"
        ELSE IF toOther = R(1) THEN "zero"
        ELSE "cos"

(* gainNode.gain.value of a stored pair, as <<rational factor, class>>:    *)
(* two pairs give the same value iff these agree, because a rational      *)
(* multiple of sqrt(2)/2 is rational only when it is 0.                    *)
GainValue(g, d) ==
    IF g.volume = R(0) \/ crossfadeGainClass(g.position, d) = "zero" THEN <<R(0), "one">>
    ELSE <<g.volume, crossfadeGainClass(g.position, d)>>

GainIsCurrent(d) ==
    GainValue(decks[d].gain, d) =
        GainValue([volume |-> decks[d].volume, position |-> crossfaderPosition], d)

(* C22: in every reachable state, the initial one included, each deck's     *)
(* output gain equals the deck's volume times the bus gain of the current   *)
(* crossfader position.                                                      *)
C22_GainFollowsVolumeAndCrossfader ==
    \A d \in DeckIds : GainIsCurrent(d)

-----------------------------------------------------------------------------
(* Properties of the BPM detector *)

Detected == detection.promise = "fulfilled"

Silent(audioBuffer) == audioBuffer.period = 0

(* C23: for every input buffer, the BPM detect returns lies in [60, 180] *)
C23_DetectedBpmInRange ==
    Detected => RLe(R(minBPM), detection.value) /\ RLe(detection.value, R(maxBPM))

(* C24: for a silent input, whose onset function has peak 0 and whose       *)
(* autocorrelation scores are all 0, detect returns the fallback 120        *)
C24_SilenceGives120 ==
    Detected /\ Silent(detection.audioBuffer) => detection.value = R(120)

(* C25: detect never fails: for every buffer, an empty one and one shorter *)
(* than one analysis frame included, its promise is fulfilled with a       *)
(* number and not rejected                                                  *)
C25_DetectNeverRejects ==
    detection.promise # "rejected"

-----------------------------------------------------------------------------
(* Properties of the auto-mix fade and session *)

(* progress of the fade as performFade computes it from the wall clock *)
FadeProgress(am, now) ==
    RMin(RDiv(Rat(now - am.fadeStartTime, 1000), R(fadeTime)), R(1))

(* the volumes a fade tick prescribes for the outgoing and the incoming deck *)
FadeOut(am, now) ==
    RMul(am.originalVolumes[am.mixingFromDeck], RSub(R(1), FadeProgress(am, now)))
FadeIn(am, now) ==
    RMul(am.originalVolumes[am.mixingToDeck], FadeProgress(am, now))

SameMix ==
    /\ autoMixer.isMixing /\ autoMixer'.isMixing
    /\ autoMixer'.fadeStartTime = autoMixer.fadeStartTime
    /\ autoMixer'.mixingFromDeck = autoMixer.mixingFromDeck

(* C26: after every fade tick of an active mix the outgoing deck's volume   *)
(* is snapshotOutgoing * (1 - progress) and the incoming deck's volume is   *)
(* snapshotIncoming * progress, with progress = min(elapsed / fadeTime, 1)  *)
(* (the tick that completes the mix included); and while a mix lasts the    *)
(* prescribed outgoing volume never increases and the incoming one never    *)
(* decreases from one step to the next, so neither do the volumes set by    *)
(* successive ticks.                                                        *)
C26_FadeFollowsProgress ==
    /\ [](autoMixer.isMixing =>
            LET w == performFade(World)
            IN  /\ w.decks[autoMixer.mixingFromDeck].volume = FadeOut(autoMixer, dateNow)
                /\ w.decks[autoMixer.mixingToDeck].volume = FadeIn(autoMixer, dateNow))
    /\ [][SameMix =>
            /\ RLe(FadeOut(autoMixer', dateNow'), FadeOut(autoMixer, dateNow))
            /\ RLe(FadeIn(autoMixer, dateNow), FadeIn(autoMixer', dateNow'))]_vars

(* half-way through a fade that no volume input has touched, a tick has    *)
(* set both decks to half of their snapshot                                *)
C26_Witness ==
    /\ autoMixer.isMixing
    /\ userOps = 0
    /\ dateNow - autoMixer.fadeStartTime = 5000
    /\ decks[autoMixer.mixingFromDeck].volume = Rat(1, 2)
    /\ decks[autoMixer.mixingToDeck].volume = Rat(1, 2)

(* index of the first notification name of deck d in w.emitted, 0 if none *)
FirstEvent(w, name, d) ==
    LET S == {i \in 1..Len(w.emitted) : w.emitted[i].name = name /\ w.emitted[i].deck = d}
    IN  IF S = {} THEN 0 ELSE CHOOSE i \in S : \A j \in S : i <= j

(* C27: when a position update starts a mix, the snapshot holds both decks' *)
(* volumes from before the mix, the incoming deck is set to volume 0, then  *)
(* synced to the outgoing deck, and only then started: its volumeChange to  *)
(* 0 precedes its sync, which precedes its single play notification, and    *)
(* at that notification its volume is 0 and its tempo the synced one.       *)
C27_MixStartOrder ==
    \A d \in DeckIds :
        LET w == positionLoopDeck(World, d)
            to == OtherDeck(d)
            volumeChange == FirstEvent(w, "volumeChange", to)
            synced == FirstEvent(w, "sync", to)
            played == FirstEvent(w, "play", to)
        IN  MixStarted(w) =>
              /\ w.autoMixer.mixingFromDeck = d /\ w.autoMixer.mixingToDeck = to
              /\ w.autoMixer.originalVolumes = [x \in DeckIds |-> decks[x].volume]
              /\ 0 < volumeChange /\ volumeChange < synced /\ synced < played
              /\ w.emitted[volumeChange].args = <<R(0)>>
              /\ CountEvents(w, "play", to) = 1
              /\ w.decks[to].volume = R(0)
              /\ w.decks[to].tempo =
                    Clamped(RDiv(RMul(decks[d].bpm, decks[d].tempo), decks[to].bpm),
                            Rat(1, 2), Rat(3, 2))
              /\ IsActive(w.decks[to])

(* a mix has just started: the incoming deck plays at volume 0 and the     *)
(* snapshot is the pair of volumes from before the mix                     *)
C27_Witness ==
    /\ autoMixer.isMixing
    /\ dateNow = autoMixer.fadeStartTime
    /\ IsActive(decks[autoMixer.mixingToDeck])
    /\ decks[autoMixer.mixingToDeck].volume = R(0)
    /\ autoMixer.originalVolumes = preMixVolumes
    /\ preMixVolumes[autoMixer.mixingToDeck] = Rat(1, 2)

-----------------------------------------------------------------------------
(* Pitch mode *)

FadeTimerArmed(w) ==
    /\ w.autoMixer.fadeTimer # 0
    /\ \E t \in w.timers : t.kind = "fade" /\ t.id = w.autoMixer.fadeTimer

SessionClosed(w) ==
    /\ ~w.autoMixer.isMixing
    /\ w.autoMixer.fadeTimer = 0
    /\ \A t \in w.timers : t.kind # "fade"
    /\ w.autoMixer.mixingFromDeck = noDeck
    /\ w.autoMixer.mixingToDeck = noDeck

(* C29: in every reachable state the auto-mix session is well formed: the   *)
(* mixer is mixing iff a fade timer is armed, iff fromDeck is set, iff      *)
(* toDeck is set; the two decks differ when set; no fade timer runs beside  *)
(* the armed one; and a cancellation, like the completing fade tick, leaves *)
(* the fade timer cleared and fromDeck and toDeck unset.                    *)
C29_MixSessionWellFormed ==
    /\ autoMixer.isMixing <=> FadeTimerArmed(World)
    /\ autoMixer.isMixing <=> autoMixer.mixingFromDeck # noDeck
    /\ autoMixer.isMixing <=> autoMixer.mixingToDeck # noDeck
    /\ autoMixer.isMixing => autoMixer.mixingFromDeck # autoMixer.mixingToDeck
    /\ ~autoMixer.isMixing => SessionClosed(World)
    /\ \A t \in timers : t.kind = "fade" => t.id = autoMixer.fadeTimer
    /\ autoMixer.isMixing =>
          /\ SessionClosed(setEnabled(World, FALSE))
          /\ dateNow - autoMixer.fadeStartTime >= fadeTime * 1000
                => SessionClosed(performFade(World))

(* a mix has run to completion: the session is closed while the timer that *)
(* restores the outgoing deck's volume is still pending                     *)
C29_Witness ==
    /\ SessionClosed(World)
    /\ \E t \in timers : t.kind = "grace"

(* C30: a mix records the incoming deck's tempo from before sync was        *)
(* applied, and the gradual tempo reset that follows the completed mix      *)
(* ends with the incoming deck at that recorded tempo.                      *)
C30_ResetRestoresRecordedTempo ==
    /\ \A d \in DeckIds :
          LET w == positionLoopDeck(World, d)
          IN  MixStarted(w) => w.autoMixer.targetTempo = decks[OtherDeck(d)].tempo
    /\ \A t \in timers :
          t.kind = "reset" /\ t.currentStep = steps - 1 /\ ~autoMixer.isMixing
             => resetStep(World, t).decks[t.deck].tempo = autoMixer.targetTempo

-----------------------------------------------------------------------------
(* The crossfader law *)

(* tolerance of the comparisons of gains, in units of 1/Scale *)
GainTolerance == 5

Near(a, b) == Abs(a - b) <= GainTolerance

EqualPower(g) == Near(FxMul(g.gainA, g.gainA) + FxMul(g.gainB, g.gainB), Scale)

(* C31: the crossfader gains follow the equal-power law, within the         *)
(* tolerance of the arithmetic: at position 0 they are (1, 0), at 1 they    *)
(* are (0, 1), at 0.5 they are equal and about 0.707, and at the position   *)
(* the crossfader is in, as at every position of its travel,                *)
(* gainA^2 + gainB^2 = 1.                                                   *)
C31_EqualPowerCrossfade ==
    /\ Near(crossfadeGains(R(0)).gainA, Scale) /\ Near(crossfadeGains(R(0)).gainB, 0)
    /\ Near(crossfadeGains(R(1)).gainA, 0) /\ Near(crossfadeGains(R(1)).gainB, Scale)
    /\ crossfadeGains(Rat(1, 2)).gainA = crossfadeGains(Rat(1, 2)).gainB
    /\ Near(crossfadeGains(Rat(1, 2)).gainA, 7071)
    /\ EqualPower(crossfadeGains(crossfaderPosition))
    /\ \A k \in 0..FaderSteps : EqualPower(crossfadeGains(Rat(k, FaderSteps)))

(* the crossfader has been moved a quarter of its travel towards deck B,   *)
(* where deck A's gain is well above deck B's                               *)
C31_Witness ==
    /\ crossfaderPosition = Rat(1, 4)
    /\ decks["A"].gain.position = Rat(1, 4)
    /\ crossfadeGains(crossfaderPosition).gainA > crossfadeGains(crossfaderPosition).gainB + 5000

-----------------------------------------------------------------------------
(* Positions of a loaded deck *)

InTrack(x, d) == RLe(R(0), x) /\ RLe(x, decks[d].duration)

(* C32: on every deck that holds a track, getPosition, the stored cue point *)
(* and every hot cue that is set lie between 0 and the duration of the      *)
(* track the deck holds now, also after a shorter track was loaded over a   *)
(* longer one.                                                              *)
C32_PositionsWithinTrack ==
    \A d \in DeckIds :
        decks[d].audioBuffer # noBuffer =>
            /\ InTrack(getPosition(World, d), d)
            /\ InTrack(decks[d].cuePoint, d)
            /\ \A i \in DOMAIN decks[d].hotCues :
                  decks[d].hotCues[i] # null => InTrack(decks[d].hotCues[i], d)

(* the 10 s track was loaded over the 30 s one, whose cue point was at 21 s, *)
(* and a cue point was stored again while it played                          *)
C32_Witness ==
    /\ decks["A"].audioBuffer = "t10"
    /\ RLt(R(0), decks["A"].cuePoint)

-----------------------------------------------------------------------------
(* The position of a Paused deck *)

(* the world after a step, as far as getPosition reads it *)
WorldAfter == [World EXCEPT !.decks = decks', !.currentTime = currentTime']

(* C33: pause() on a Playing deck leaves getPosition at the value it had at *)
(* the instant of the call; while the deck stays Paused, getPosition keeps  *)
(* that value in every step in which the audio clock advances; and setTempo *)
(* on a Paused deck, with any ratio, does not change it.                    *)
C33_PausedPositionFrozen ==
    /\ [](\A d \in DeckIds :
             /\ Playing(decks[d])
                   => /\ Paused(pause(World, d).decks[d])
                      /\ getPosition(pause(World, d), d) = getPosition(World, d)
             /\ Paused(decks[d])
                   => \A r \in TempoProbes :
                         /\ Paused(setTempo(World, d, r).decks[d])
                         /\ getPosition(setTempo(World, d, r), d)
                               = getPosition(World, d))
    /\ [][\A d \in DeckIds :
            (Paused(decks[d]) /\ Paused(decks'[d]) /\ currentTime' # currentTime)
                => getPosition(WorldAfter, d) = getPosition(World, d)]_vars

(* a deck was paused away from the start, its tempo was changed, and the    *)
(* clock has run on to the end of the run                                   *)
C33_Witness ==
    \E d \in DeckIds :
        /\ Paused(decks[d])
        /\ RLt(R(0), getPosition(World, d))
        /\ decks[d].tempo # R(1)
        /\ currentTime = R(MaxTime)

-----------------------------------------------------------------------------
(* The audio source of a deck *)

(* the deck holds a buffer source that was started and has neither been    *)
(* stopped nor played to the end of its buffer                              *)
LiveSource(deck) == deck.source = "playing"

(* C34: in every reachable state a deck holds a live audio source if and    *)
(* only if it is Playing: no source keeps running on a deck that is Paused  *)
(* or Stopped, and no deck is Playing without a running source.             *)
C34_LiveSourceIffPlaying ==
    \A d \in DeckIds : LiveSource(decks[d]) <=> Playing(decks[d])

-----------------------------------------------------------------------------
(* The position of a Playing deck *)

PositionRatios == {Rat(1, 4), R(2)}

(* the world after the audio clock has advanced by dt and nothing else ran *)
ClockAdvanced(w, dt) == [w EXCEPT !.currentTime = RAdd(@, dt)]

(* C35: while a deck stays Playing, getPosition does not decrease: not in a *)
(* step in which the clock advances or a timer or the mixer calls setTempo, *)
(* and not over setTempo, the clock advancing, setTempo again and the clock *)
(* advancing again, for two different ratios.  (The runs of this property *)
(* make no seek, goToCue, goToHotCue or load; stop leaves Playing.)         *)
C35_PlayingPositionMonotone ==
    /\ [][\A d \in DeckIds :
            (Playing(decks[d]) /\ Playing(decks'[d]))
                => RLe(getPosition(World, d), getPosition(WorldAfter, d))]_vars
    /\ [](\A d \in DeckIds :
             Playing(decks[d]) =>
                 \A r1 \in PositionRatios :
                 \A r2 \in PositionRatios \ {r1}, dt \in TimeSteps :
                     \A w1 \in {setTempo(World, d, r1)} :
                     \A w2 \in {ClockAdvanced(w1, dt)} :
                     \A w3 \in {setTempo(w2, d, r2)} :
                     \A w4 \in {ClockAdvanced(w3, dt)} :
                         /\ RLe(getPosition(World, d), getPosition(w1, d))
                         /\ RLe(getPosition(w1, d), getPosition(w2, d))
                         /\ RLe(getPosition(w2, d), getPosition(w3, d))
                         /\ RLe(getPosition(w3, d), getPosition(w4, d)))

(* a deck is Playing inside its track while the tempo reset after a mix has *)
(* already called setTempo on it several times                              *)
C35_Witness ==
    \E t \in timers :
        /\ t.kind = "reset"
        /\ t.currentStep >= 3
        /\ Playing(decks[t.deck])
        /\ RLt(R(0), getPosition(World, t.deck))
        /\ RLt(getPosition(World, t.deck), decks[t.deck].duration)

-----------------------------------------------------------------------------
(* The notifications of the AutoMixer *)

Last(s) == s[Len(s)]

MixPair(e) == <<e.deck, e.args[1]>>

MixEvents(w) == SelectSeq(w.emitted, IsMixEvent)

(* C36: every autoMixComplete(from, to) comes right after the autoMixStart  *)
(* of the same two decks in the sequence of mix notifications, so no other  *)
(* autoMixStart lies between them and no autoMixStart has two completions;  *)
(* while a mix is open the last notification is its autoMixStart; a step    *)
(* emits autoMixComplete only for the mix that is open; and cancelling a    *)
(* mix, like a fade tick after the mix was closed, emits no notification of *)
(* the mixer.                                                               *)
C36_MixEventsPaired ==
    /\ [](/\ \A i \in DOMAIN mixLog :
                mixLog[i].name = "autoMixComplete"
                   => /\ i > 1
                      /\ mixLog[i - 1].name = "autoMixStart"
                      /\ MixPair(mixLog[i - 1]) = MixPair(mixLog[i])
          /\ autoMixer.isMixing
                => /\ mixLog # <<>>
                   /\ Last(mixLog).name = "autoMixStart"
                   /\ MixPair(Last(mixLog))
                         = <<autoMixer.mixingFromDeck, autoMixer.mixingToDeck>>
                   /\ MixEvents(setEnabled(World, FALSE)) = <<>>
          /\ ~autoMixer.isMixing => MixEvents(performFade(World)) = <<>>)
    /\ [][(mixLog' # mixLog /\ Last(mixLog').name = "autoMixComplete")
             => /\ autoMixer.isMixing
                /\ Len(mixLog') = Len(mixLog) + 1
                /\ MixPair(Last(mixLog'))
                      = <<autoMixer.mixingFromDeck, autoMixer.mixingToDeck>>]_vars

(* a mix from A to B has completed and the next mix, back from B to A, has *)
(* started                                                                 *)
C36_Witness ==
    /\ Len(mixLog) = 3
    /\ mixLog[2].name = "autoMixComplete"
    /\ MixPair(mixLog[2]) = <<"A", "B">>
    /\ MixPair(mixLog[3]) = <<"B", "A">>

-----------------------------------------------------------------------------
(* Loads that fail, and loads that overlap *)

LoadFails(t) ==
    \/ decodeAudioData(t).promise = "rejected"
    \/ detectTrack(t).promise = "rejected"

TrackFields(deck) ==
    [audioBuffer |-> deck.audioBuffer, duration |-> deck.duration,
     bpm |-> deck.bpm, cuePoint |-> deck.cuePoint, hotCues |-> deck.hotCues]

(* C38: a load that fails, because the file does not decode or because BPM *)
(* detection rejects, leaves the deck with the buffer, duration, BPM, cue   *)
(* point and hot cues it had, and emits no trackLoaded.                     *)
C38_FailedLoadKeepsTrack ==
    \A d \in DeckIds : \A i \in DOMAIN loading[d] :
        LoadFails(loading[d][i]) =>
            \E w \in {loadTrackResume(World, d, loading[d][i])} :
                /\ TrackFields(w.decks[d]) = TrackFields(decks[d])
                /\ ~HasEvent(w, "trackLoaded", d)

HoldsTrack(deck, t) ==
    /\ deck.audioBuffer = t
    /\ deck.duration = TrackDuration(t)
    /\ deck.bpm = TrackBpm(t)

(* C39: when two loads of files that load are in flight on one deck, the   *)
(* deck holds the track of the call issued last once both have finished,   *)
(* in whichever order the two decodes finish.                              *)
C39_LastIssuedLoadWins ==
    \A d \in DeckIds :
        (Len(loading[d]) = 2 /\ \A i \in 1..2 : ~LoadFails(loading[d][i])) =>
            \A i \in 1..2 :
                \E w1 \in {loadTrackResume(World, d, loading[d][i])} :
                \E w2 \in {loadTrackResume(w1, d, loading[d][3 - i])} :
                    HoldsTrack(w2.decks[d], loading[d][2])

-----------------------------------------------------------------------------
(* The values carried by the change notifications *)

(* the arguments of the notifications called name that w has emitted *)
ArgsOf(w, name) == {w.emitted[i].args : i \in {j \in 1..Len(w.emitted) : w.emitted[j].name = name}}

(* C40: a change notification carries the value that was stored:           *)
(* crossfaderChange the stored crossfader position, volumeChange the       *)
(* stored volume of the deck, sync the tempo that was applied to the deck, *)
(* for requested values inside and outside the range.                      *)
C40_NotificationsCarryStoredValue ==
    /\ \A v \in RangeInputs \cup VolumeInputs :
          /\ \E w \in {setCrossfader(World, v)} :
                ArgsOf(w, "crossfaderChange") = {<<w.crossfaderPosition>>}
          /\ \A d \in DeckIds :
                \E w \in {setVolume(World, d, v)} :
                    ArgsOf(w, "volumeChange") = {<<w.decks[d].volume>>}
    /\ \A d \in DeckIds :
          \E w \in {sync(World, d)} :
              ArgsOf(w, "sync") \subseteq {<<w.decks[d].tempo>>}

====
